---- MODULE Spec2Model ----
(***************************************************************************)
(* State-machine model of the ARIMA forecasting core:                      *)
(*   arima_modeling.fit_arima            grid search over (p,0,q)          *)
(*   data_preparation.prepare_stationary_data   differencing / ADF loop    *)
(*   arima_modeling.transform_to_original_scale cumsum restore + dates     *)
(*   main.main                           the per-ticker pipeline           *)
(* Floats are modelled by integers (prices and AICs keep only their order  *)
(* and sums); NaN and +inf are kept as distinct values of an AIC.          *)
(***************************************************************************)
EXTENDS Integers, Sequences, FiniteSets, TLC

(***************************************************************************)
(* Bounds of the model                                                     *)
(***************************************************************************)
\* finite AIC values a fit may report are 0..MaxAIC
MaxAIC == 1
\* prepare_stationary_data and main work through the tickers 1..NTickers
NTickers == 2
\* forecasts and paths whose values are restored have 1..MaxSteps steps
MaxSteps == 3
\* 1..MaxPaths simulated paths are restored
MaxPaths == 2
\* the long forecast horizon of the date generation
LongHorizon == 250
\* the anchor dates of the date generation are FirstAnchorDay..FirstAnchorDay+AnchorSpan
FirstAnchorDay == 40
AnchorSpan == 8
\* most paths handed to the weighting
NWPaths == 3
\* the days the output directories are followed over
MaxDay == 3
\* the passes through the date-extension loop of generate_path_description
\* that are followed
MaxPasses == 4
\* the runs of fix_forecasts.main on one output tree
MaxRuns == 2

(***************************************************************************)
(* fit_arima: values                                                       *)
(***************************************************************************)
\* p_range = range(0, 6): the largest AR order scanned
PMax == 5
\* q_range = range(0, 6): the largest MA order scanned
QMax == 5

\* Python's None (best_order, best_model, the members of a failed return)
None == << >>

\* float('inf'): larger than every finite AIC
PosInf == MaxAIC + 1
\* a NaN AIC: every comparison with it is false
NaN == MaxAIC + 2
\* the candidate's ARIMA(...) or fit() raised
FitError == MaxAIC + 3

FiniteAICs == 0..MaxAIC
\* what model_fit.aic can be after a fit that did not raise
AICValues == FiniteAICs \cup {PosInf, NaN}
\* what one pass through the body of the inner try can meet
FitOutcomes == AICValues \cup {FitError}

\* the float comparison  a < b
FloatLess(a, b) == a # NaN /\ b # NaN /\ a < b

\* the candidates in scan order: p outer loop, q inner loop
NCandidates == (PMax + 1) * (QMax + 1)
CandP(i) == i \div (QMax + 1)
CandQ(i) == i % (QMax + 1)
OrderOf(i) == <<CandP(i), 0, CandQ(i)>>

VARIABLES
  \* ---- fit_arima ----
  fa_pc,        \* "scan" | "returned"
  fa_idx,       \* position of the two nested loops: next candidate, 0..36
  best_aic,     \* best_aic
  best_order,   \* best_order
  best_model,   \* best_model: the fit object, <<p, q, aic>>, or None
  fa_result,    \* the returned triple, None before the return
  fa_raised,    \* an exception left fit_arima
  \* observation of the run (not program state)
  attempts,     \* candidate -> number of times ARIMA(...).fit() was attempted
  firstSeen,    \* finite AIC value -> 1 + first candidate that reported it, 0 if none
  sawNonFinite, \* some fit succeeded with AIC +inf or NaN
  lastFailed,   \* the most recent attempt raised
  \* ---- prepare_stationary_data ----
  ps_pc,           \* "ticker" | "loop" | "after_loop" | "returned" | "raised"
  ps_ticker,       \* the ticker of the for loop, 1..NTickers
  adf,             \* input: level -> what adfuller gives for data[ticker] differenced level times
  current_data,    \* current_data: [kind, diffs]
  is_stationary,   \* is_stationary
  diff_order,      \* diff_order
  stationary_data, \* stationary_data: ticker -> current_data, NoData while not set
  ps_warned,       \* tickers for which the "Could not achieve stationarity" warning was printed
  ps_error,        \* the exception that left prepare_stationary_data, "none" if none
  tested,          \* observation: the levels of the current ticker adfuller was run on
  \* ---- transform_to_original_scale ----
  ts_pc,               \* "dates" | "returned"
  forecast,            \* forecast: the differenced point forecast
  simulated_paths,     \* simulated_paths: rows of differenced values
  last_original_value, \* last_original_value: the anchor
  last_date,           \* last_date: the anchor date, a day number
  holidays,            \* holidays: the holidays of the window of line 94
  forecast_dates,      \* forecast_dates
  current_date,        \* current_date
  ts_result,           \* the returned triple, NoResult before the return
  \* ---- main ----
  m_pc,        \* "prepare" | "fit" | "generate" | "transform" | "weight" | "done" | "raised"
  m_ticker,    \* the ticker of the for loop of line 85
  m_fit,       \* (best_model, best_order, best_model_fit) as returned by fit_arima
  m_units,     \* how many times the forecast and paths in hand are still differenced
  m_anchors,   \* the levels of differencing of the anchors of the restorations done
  m_shape,     \* the lengths of the arrays main holds for the ticker in progress
  m_stages,    \* ticker -> the stages of the pipeline main has entered for it
  handed,      \* ticker -> what was handed to the weighting and the export
  \* ---- calculate_threshold_weighted_forecast and its callers ----
  w_pc,        \* "select" | "average" | "done" | "idle"
  w_producer,  \* the script that calls: "main" | "fix_forecasts" | "process_adoption_forecasts"
  w_call,      \* 1: the call for threshold_weighted_forecast, 2: for chatgpt_weighted_forecast
  w_paths,     \* simulated_paths: a sequence of rows
  w_weights,   \* weights: one score per path
  w_user,      \* the threshold the caller supplies for the second call
  w_threshold, \* the parameter threshold of the call in progress
  w_mask,      \* mask
  w_warned,    \* the warning of line 39 was printed in the call in progress
  w_out,       \* what the producer holds: both forecasts, how each was computed
  \* ---- fix_forecasts.process_forecast_file ----
  x_pc,        \* "fix_arima" | "adjust" | "recalculate" | "write" | "done" | "idle"
  x_data,      \* forecasts_data: which fields it has and how they were computed
  x_analysis,  \* analysis.json: "missing" | "no_analyses" | "short" | "ok"
  x_written,   \* the record written to the _fixed file, NoRecord before
  \* ---- generate_forecast_paths ----
  g_pc,        \* "forecast" | "simulate" | "returned" | "idle"
  g_steps,     \* steps
  g_n_paths,   \* n_paths
  g_forecast,  \* forecast
  g_paths,     \* the list simulated_paths
  g_calls,     \* how often model_fit.forecast and model_fit.simulate were called
  g_result,    \* the returned pair
  \* ---- fit_arima called twice on one series ----
  r_run,       \* which call is in progress: 1 | 2 (0: none)
  r_profile,   \* what fitting each candidate on the series gives
  r_first,     \* what the first call returned
  \* ---- the candidate fits run by two workers, one reduction ----
  p_pc,        \* "run" | "returned" | "idle"
  p_profile,   \* what fitting each candidate on the series gives
  p_next,      \* per worker, the next candidate of its share
  p_best_aic,  \* best_aic
  p_best_order, \* best_order
  p_best_model, \* best_model
  p_result,    \* the returned triple
  \* ---- the analysis a producer reads its scores from ----
  s_analyses,  \* analysis["analyses"]: records with path_id and probability
  \* ---- ChatGPTHandler._process_api ----
  a_pc,        \* "setup" | "prompt" | "request" | "sleep" | "returned" | "raised" | "idle"
  a_i,         \* i, the index of the prompt in hand (0-based)
  a_attempt,   \* attempt
  a_responses, \* the keys of responses: k stands for response_k
  a_sent,      \* per prompt, how many API requests were made for it
  a_slept,     \* the seconds slept between attempts, in total
  a_returned,  \* the dictionary returned: its keys (NoDictionary before, or on a raise)
  \* ---- the output directories: chatgpt_handler writes, evaluate_forecasts reads ----
  e_today,     \* the calendar day (datetime.now()), counted from the first run
  e_dirs,      \* the directories under OUTPUT_DIR that hold a forecasts file
  e_runs,      \* which ticker main processed on which day
  e_load,      \* the last load_forecast_data: ticker, day and what it did
  \* ---- path_descriptions.generate_path_description ----
  d_pc,        \* "range" | "extend" | "single" | "steps" | "last" | "done" | "raised" | "idle"
  d_path,      \* path
  d_start,     \* start_date
  d_end,       \* end_date
  d_last,      \* last_historical_value
  d_business_days, \* business_days
  d_holidays,  \* holidays
  d_iters,     \* the passes made through the while loop of line 30
  d_i,         \* i of the enumeration of line 80
  d_first_day, \* first_day
  d_previous_change, \* previous_change
  d_current_date, \* current_date
  d_description,\* description: the sentences, each with the movements it tells
  \* ---- fix_forecasts.main ----
  f_pc,        \* "glob" | "process" | "done" | "idle"
  f_run,       \* which run of main this is
  f_tree,      \* the json files of the output tree: path -> entry
  f_analysis,  \* analysis.json of every directory
  f_queue,     \* sorted(forecast_files), the part not yet processed
  f_successful, \* successful
  f_failed,    \* failed
  f_inputs,    \* the paths the current run has opened as input
  f_written,   \* the <<path, data>> the current run has written
  f_log,       \* f_inputs and f_written of the runs finished
  f_initial,   \* the tree before the first run
  \* ---- visualization.plot_forecast_comparison: the dates ----
  v_pc,        \* "waiting" | "dates" | "export" | "exported" | "idle"
  v_forecast_steps, \* forecast_steps
  v_last_historical_date, \* last_historical_date
  v_holidays,  \* holidays
  v_forecast_dates, \* forecast_dates
  v_current_date, \* current_date
  v_export     \* the dates of export_data

favars == <<fa_pc, fa_idx, best_aic, best_order, best_model, fa_result, fa_raised,
            attempts, firstSeen, sawNonFinite, lastFailed>>

psvars == <<ps_pc, ps_ticker, adf, current_data, is_stationary, diff_order,
            stationary_data, ps_warned, ps_error, tested>>

tsvars == <<ts_pc, forecast, simulated_paths, last_original_value, last_date,
            holidays, forecast_dates, current_date, ts_result>>

mvars == <<m_pc, m_ticker, m_fit, m_units, m_anchors, m_shape, m_stages, handed>>

wvars == <<w_pc, w_producer, w_call, w_paths, w_weights, w_user, w_threshold,
           w_mask, w_warned, w_out>>

\* the machines besides fit_arima, prepare_stationary_data,
\* transform_to_original_scale and main
xvars == <<x_pc, x_data, x_analysis, x_written>>

gvars == <<g_pc, g_steps, g_n_paths, g_forecast, g_paths, g_calls, g_result>>

rvars == <<r_run, r_profile, r_first>>

pvars == <<p_pc, p_profile, p_next, p_best_aic, p_best_order, p_best_model,
           p_result>>

svars == <<s_analyses>>

avars == <<a_pc, a_i, a_attempt, a_responses, a_sent, a_slept, a_returned>>

evars == <<e_today, e_dirs, e_runs, e_load>>

dvars == <<d_pc, d_path, d_start, d_end, d_last, d_business_days, d_holidays,
           d_iters, d_i, d_first_day, d_previous_change, d_current_date,
           d_description>>

fvars == <<f_pc, f_run, f_tree, f_analysis, f_queue, f_successful, f_failed,
           f_inputs, f_written, f_log, f_initial>>

vvars == <<v_pc, v_forecast_steps, v_last_historical_date, v_holidays,
           v_forecast_dates, v_current_date, v_export>>

restvars == <<wvars, xvars, gvars, rvars, pvars, svars, avars, evars, dvars, fvars,
              vvars>>

vars == <<favars, psvars, tsvars, mvars, restvars>>

(***************************************************************************)
(* fit_arima                                                               *)
(***************************************************************************)
FaInit ==
  /\ fa_pc = "scan"
  /\ fa_idx = 0
  /\ best_aic = PosInf
  /\ best_order = None
  /\ best_model = None
  /\ fa_result = None
  /\ fa_raised = FALSE
  /\ attempts = [i \in 0..(NCandidates - 1) |-> 0]
  /\ firstSeen = [a \in FiniteAICs |-> 0]
  /\ sawNonFinite = FALSE
  /\ lastFailed = FALSE

FaIdle ==
  /\ fa_pc = "idle"
  /\ fa_idx = 0
  /\ best_aic = PosInf
  /\ best_order = None
  /\ best_model = None
  /\ fa_result = None
  /\ fa_raised = FALSE
  /\ attempts = [i \in 0..(NCandidates - 1) |-> 0]
  /\ firstSeen = [a \in FiniteAICs |-> 0]
  /\ sawNonFinite = FALSE
  /\ lastFailed = FALSE

\* (mutation of IsBetter: <= in place of <, a later tie replaces the best)
IsBetterOrEqual(aic, best) == FloatLess(aic, best) \/ (aic = best /\ aic # NaN)

\* (mutation of IsBetter: > in place of <, the larger AIC replaces the best)
IsBetterReversed(aic, best) == FloatLess(best, aic)

\* if model_fit.aic < best_aic
IsBetter(aic, best) == FloatLess(aic, best)

\* (mutation of AfterError: the failed candidate is fitted again)
AfterErrorRetry(i) == i

\* (mutation of AfterError: the first failure ends the scan)
AfterErrorAbort(i) == NCandidates

\* except: continue  -- what the inner handler does to the scan position
AfterError(i) == i + 1

\* (mutation of ReturnValue: a default order in place of the None triple)
ReturnValueDefaultOrder(model, order) ==
  IF model = None THEN <<None, <<0, 0, 0>>, None>> ELSE <<model, order, model>>

\* lines 43-50: return None, None, None / return best_model, best_order, best_model
ReturnValue(model, order) ==
  IF model = None THEN <<None, None, None>> ELSE <<model, order, model>>

\* One pass through the loop body for candidate (p, q) = OrderOf(fa_idx).
FitCandidate(outcome) ==
  /\ fa_pc = "scan"
  /\ fa_idx < NCandidates
  /\ attempts' = [attempts EXCEPT ![fa_idx] = @ + 1]
  /\ lastFailed' = (outcome = FitError)
  /\ IF outcome = FitError
       THEN /\ fa_idx' = AfterError(fa_idx)
            /\ UNCHANGED <<best_aic, best_order, best_model, firstSeen, sawNonFinite>>
       ELSE /\ fa_idx' = fa_idx + 1
            /\ sawNonFinite' = (sawNonFinite \/ outcome \notin FiniteAICs)
            /\ firstSeen' = IF outcome \in FiniteAICs /\ firstSeen[outcome] = 0
                              THEN [firstSeen EXCEPT ![outcome] = fa_idx + 1]
                              ELSE firstSeen
            /\ IF IsBetter(outcome, best_aic)
                 THEN /\ best_aic' = outcome
                      /\ best_order' = OrderOf(fa_idx)
                      /\ best_model' = <<CandP(fa_idx), CandQ(fa_idx), outcome>>
                 ELSE UNCHANGED <<best_aic, best_order, best_model>>
  /\ UNCHANGED <<fa_pc, fa_result, fa_raised>>

\* lines 43-50: after the loops
FitReturn ==
  /\ fa_pc = "scan"
  /\ fa_idx >= NCandidates
  /\ fa_pc' = "returned"
  /\ fa_result' = ReturnValue(best_model, best_order)
  /\ UNCHANGED <<fa_idx, best_aic, best_order, best_model, fa_raised,
                 attempts, firstSeen, sawNonFinite, lastFailed>>

FaNext ==
  \/ /\ \E outcome \in FitOutcomes : FitCandidate(outcome)
     /\ UNCHANGED <<psvars, tsvars, mvars, restvars>>
  \/ /\ FitReturn
     /\ UNCHANGED <<psvars, tsvars, mvars, restvars>>

(***************************************************************************)
(* prepare_stationary_data                                                 *)
(***************************************************************************)
\* while ... diff_order < 3
DiffCap == 3
\* p-values in thousandths; the threshold 0.05 of line 71
Alpha == 50
\* p-values below, at and above the threshold
PValues == {10, 50, 90}
\* adfuller raised (a constant or too short series)
AdfError == 1001
AdfOutcomes == PValues \cup {AdfError}
Levels == 0..DiffCap
Tickers == 1..NTickers

\* no entry in stationary_data yet
NoData == [kind |-> "none", diffs |-> 0]
\* data[ticker]: a pandas Series, not yet differenced
RawSeries == [kind |-> "Series", diffs |-> 0]
\* np.diff(current_data): one more difference, and the result is a numpy array
NpDiff(d) == [kind |-> "ndarray", diffs |-> d.diffs + 1]
\* series.diff() exists on a pandas Series only: on a numpy array
\* difference_series raises AttributeError
CanDifferenceSeries(d) == d.kind = "Series"
\* difference_series: series.diff().dropna()
DifferenceSeries(d) == [kind |-> "Series", diffs |-> d.diffs + 1]

\* the result of adfuller on the data differenced `level` times
AdfAt(level) == IF level \in DOMAIN adf THEN adf[level] ELSE 90

\* (mutation of LoopContinues: <= in place of <)
LoopContinuesOffByOne(stat, order) == ~stat /\ order <= DiffCap

\* while not is_stationary and diff_order < 3
LoopContinues(stat, order) == ~stat /\ order < DiffCap

\* (mutation of DeclaresStationary: <= as in check_stationarity)
DeclaresStationaryAtThreshold(pv) == pv <= Alpha

\* if p_value < 0.05
DeclaresStationary(pv) == pv < Alpha

PsIdle ==
  /\ ps_pc = "idle"
  /\ ps_ticker = 1
  /\ adf = [l \in Levels |-> 90]
  /\ current_data = RawSeries
  /\ is_stationary = FALSE
  /\ diff_order = 0
  /\ stationary_data = [t \in Tickers |-> NoData]
  /\ ps_warned = {}
  /\ ps_error = "none"
  /\ tested = {}

PsInit ==
  /\ ps_pc = "ticker"
  /\ ps_ticker = 1
  /\ adf = [l \in Levels |-> 90]
  /\ current_data = RawSeries
  /\ is_stationary = FALSE
  /\ diff_order = 0
  /\ stationary_data = [t \in Tickers |-> NoData]
  /\ ps_warned = {}
  /\ ps_error = "none"
  /\ tested = {}

\* lines 56-62: the next ticker of the for loop; its series fixes what adfuller
\* will give at each level of differencing
PsBeginTicker(profile) ==
  /\ ps_pc = "ticker"
  /\ ps_ticker <= NTickers
  /\ adf' = profile
  /\ current_data' = RawSeries
  /\ is_stationary' = FALSE
  /\ diff_order' = 0
  /\ tested' = {}
  /\ ps_pc' = "loop"
  /\ UNCHANGED <<ps_ticker, stationary_data, ps_warned, ps_error>>

\* lines 64-78: one pass through the while body
PsLoopBody ==
  /\ ps_pc = "loop"
  /\ LoopContinues(is_stationary, diff_order)
  /\ tested' = tested \cup {current_data.diffs}
  /\ LET p_value == AdfAt(current_data.diffs) IN
       IF p_value = AdfError
         THEN /\ ps_pc' = "raised"
              /\ ps_error' = "adfuller"
              /\ UNCHANGED <<current_data, is_stationary, diff_order>>
         ELSE /\ UNCHANGED <<ps_pc, ps_error>>
              /\ IF DeclaresStationary(p_value)
                   THEN /\ is_stationary' = TRUE
                        /\ UNCHANGED <<current_data, diff_order>>
                   ELSE /\ current_data' = NpDiff(current_data)
                        /\ diff_order' = diff_order + 1
                        /\ UNCHANGED is_stationary
  /\ UNCHANGED <<ps_ticker, adf, stationary_data, ps_warned>>

\* line 64: the while condition is false
PsLoopExit ==
  /\ ps_pc = "loop"
  /\ ~LoopContinues(is_stationary, diff_order)
  /\ ps_pc' = "after_loop"
  /\ UNCHANGED <<ps_ticker, adf, current_data, is_stationary, diff_order,
                 stationary_data, ps_warned, ps_error, tested>>

\* lines 80-85: the warning and difference_series when not stationary, then
\* stationary_data[ticker] = current_data
PsStore ==
  /\ ps_pc = "after_loop"
  /\ IF is_stationary
       THEN /\ stationary_data' = [stationary_data EXCEPT ![ps_ticker] = current_data]
            /\ ps_ticker' = ps_ticker + 1
            /\ ps_pc' = "ticker"
            /\ UNCHANGED <<current_data, ps_warned, ps_error>>
       ELSE /\ ps_warned' = ps_warned \cup {ps_ticker}
            /\ IF CanDifferenceSeries(current_data)
                 THEN /\ current_data' = DifferenceSeries(current_data)
                      /\ stationary_data' =
                           [stationary_data EXCEPT ![ps_ticker] = DifferenceSeries(current_data)]
                      /\ ps_ticker' = ps_ticker + 1
                      /\ ps_pc' = "ticker"
                      /\ UNCHANGED ps_error
                 ELSE /\ ps_pc' = "raised"
                      /\ ps_error' = "AttributeError"
                      /\ UNCHANGED <<current_data, stationary_data, ps_ticker>>
  /\ UNCHANGED <<adf, is_stationary, diff_order, tested>>

\* line 94: return stationary_data (the locals of the call are gone)
PsReturn ==
  /\ ps_pc = "ticker"
  /\ ps_ticker > NTickers
  /\ ps_pc' = "returned"
  /\ adf' = [l \in Levels |-> 90]
  /\ current_data' = RawSeries
  /\ is_stationary' = FALSE
  /\ diff_order' = 0
  /\ tested' = {}
  /\ UNCHANGED <<ps_ticker, stationary_data, ps_warned, ps_error>>

PsNext ==
  \/ /\ \E profile \in [Levels -> AdfOutcomes] : PsBeginTicker(profile)
     /\ UNCHANGED <<favars, tsvars, mvars, restvars>>
  \/ /\ PsLoopBody
     /\ UNCHANGED <<favars, tsvars, mvars, restvars>>
  \/ /\ PsLoopExit
     /\ UNCHANGED <<favars, tsvars, mvars, restvars>>
  \/ /\ PsStore
     /\ UNCHANGED <<favars, tsvars, mvars, restvars>>
  \/ /\ PsReturn
     /\ UNCHANGED <<favars, tsvars, mvars, restvars>>

(***************************************************************************)
(* transform_to_original_scale                                             *)
(***************************************************************************)
\* Dates are day numbers, day 0 = Monday 2024-01-01; Weekday as date.weekday()
Weekday(d) == d % 7

\* USFederalHolidayCalendar().holidays for 2024 and 2025 (observed dates):
\* 2024: Jan 1, Jan 15, Feb 19, May 27, Jun 19, Jul 4, Sep 2, Oct 14, Nov 11,
\*       Nov 28, Dec 25;  2025: Jan 1, Jan 20, Feb 17, May 26, Jun 19, Jul 4,
\*       Sep 1, Oct 13, Nov 11, Nov 27, Dec 25
USFederalHolidays ==
  {0, 14, 49, 147, 170, 185, 245, 287, 315, 332, 359,
   366, 385, 413, 511, 535, 550, 609, 651, 680, 696, 724}

\* the buffer of line 94: BDay(forecast.shape[0] + 10)
BufferDays == 10

\* d + BDay(1): the next weekday after d
NextBDay(d) ==
  IF Weekday(d) = 4 THEN d + 3 ELSE IF Weekday(d) = 5 THEN d + 2 ELSE d + 1

\* d + BDay(n), n >= 0: n times the next weekday (from a Saturday or Sunday the
\* first of the n is the Monday)
AddBDays(d, n) ==
  IF n = 0 THEN d
  ELSE LET start == IF Weekday(d) >= 5 THEN d + (7 - Weekday(d)) ELSE d
           m     == IF Weekday(d) >= 5 THEN n - 1 ELSE n
           t     == Weekday(start) + m
       IN  start - Weekday(start) + (t \div 5) * 7 + (t % 5)

\* cal.holidays(start=last_date, end=last_date + BDay(steps + 10))
HolidayWindow(d, steps) ==
  {h \in USFederalHolidays : d <= h /\ h <= AddBDays(d, steps + BufferDays)}

\* (mutation of CumSum: the values are not accumulated)
CumSumNone(s) == s

\* s[lo] + ... + s[hi], summed by halves (long rows stay shallow)
RECURSIVE SumRange(_, _, _)
SumRange(s, lo, hi) ==
  IF lo > hi THEN 0
  ELSE IF lo = hi THEN s[lo]
  ELSE LET mid == (lo + hi) \div 2
       IN  SumRange(s, lo, mid) + SumRange(s, mid + 1, hi)

\* np.cumsum of one row: entry k is the sum of the entries 1..k
CumSum(s) == [k \in 1..Len(s) |-> SumRange(s, 1, k)]

\* row + last_original_value
AddScalar(s, a) == [k \in 1..Len(s) |-> s[k] + a]

\* line 109: np.cumsum(forecast) + last_original_value
TransformForecast(f, a) == AddScalar(CumSum(f), a)

\* line 112: np.cumsum(simulated_paths, axis=1) + last_original_value
TransformPaths(P, a) == [i \in 1..Len(P) |-> AddScalar(CumSum(P[i]), a)]

NoResult == [forecast_original |-> << >>, simulated_paths_original |-> << >>,
             forecast_dates |-> << >>, returned |-> FALSE]

TsIdle ==
  /\ ts_pc = "idle"
  /\ forecast = << >>
  /\ simulated_paths = << >>
  /\ last_original_value = 0
  /\ last_date = 0
  /\ holidays = {}
  /\ forecast_dates = << >>
  /\ current_date = 0
  /\ ts_result = NoResult

\* lines 93-98: the call, up to the loop
TsCall(f, P, value, date) ==
  /\ ts_pc = "dates"
  /\ forecast = f
  /\ simulated_paths = P
  /\ last_original_value = value
  /\ last_date = date
  /\ holidays = HolidayWindow(date, Len(f))
  /\ forecast_dates = << >>
  /\ current_date = NextBDay(date)
  /\ ts_result = NoResult

\* lines 100-104: one pass through the while body
TsDateLoop ==
  /\ ts_pc = "dates"
  /\ Len(forecast_dates) < Len(forecast)
  /\ forecast_dates' =
       IF Weekday(current_date) < 5 /\ current_date \notin holidays
         THEN Append(forecast_dates, current_date)
         ELSE forecast_dates
  /\ current_date' = NextBDay(current_date)
  /\ UNCHANGED <<ts_pc, forecast, simulated_paths, last_original_value, last_date,
                 holidays, ts_result>>

\* lines 106-114: the loop is over; cumulative sums and return
TsReturn ==
  /\ ts_pc = "dates"
  /\ ~(Len(forecast_dates) < Len(forecast))
  /\ ts_result' = [forecast_original |-> TransformForecast(forecast, last_original_value),
                   simulated_paths_original |->
                     TransformPaths(simulated_paths, last_original_value),
                   forecast_dates |-> forecast_dates,
                   returned |-> TRUE]
  /\ ts_pc' = "returned"
  /\ UNCHANGED <<forecast, simulated_paths, last_original_value, last_date,
                 holidays, forecast_dates, current_date>>

TsNext ==
  \/ /\ TsDateLoop
     /\ UNCHANGED <<favars, psvars, mvars, restvars>>
  \/ /\ TsReturn
     /\ UNCHANGED <<favars, psvars, mvars, restvars>>

\* the inputs of the value restoration
DiffValues == {-5, 10}
AnchorValues == {7, 1000}
Rows(n) == [1..n -> DiffValues]
\* the inputs of the date generation
StepChoices == {1, 2, LongHorizon}
AnchorDays == FirstAnchorDay..(FirstAnchorDay + AnchorSpan)
Zeros(n) == [k \in 1..n |-> 0]

(***************************************************************************)
(* main                                                                    *)
(***************************************************************************)
Pending == [state |-> "pending", units |-> 0, anchors |-> << >>]
Skipped == [state |-> "skipped", units |-> 0, anchors |-> << >>]

\* config.py: forecast_steps and n_paths of main (lines 60-61)
DEFAULT_FORECAST_STEPS == 1
DEFAULT_N_PATHS == 100

\* the stages of the pipeline of one ticker, after the model selection
Stages == {"simulate", "rescale", "prompts", "weight", "export"}

\* how many entries analysis["analyses"] of the response can have: the response
\* is read from a file or from the API and its length is not checked
ScoreCounts == {DEFAULT_N_PATHS - 1, DEFAULT_N_PATHS, DEFAULT_N_PATHS + 1}

\* what fit_arima can return: the None triple, or a candidate's fit
FitResults ==
  {ReturnValue(None, None)} \cup
  {ReturnValue(<<CandP(i), CandQ(i), a>>, OrderOf(i)) :
     i \in 0..(NCandidates - 1), a \in FiniteAICs}

NoShape == [forecast |-> 0, paths |-> 0, dates |-> 0, scores |-> 0,
            threshold_weighted |-> 0, chatgpt_weighted |-> 0]

MIdle ==
  /\ m_pc = "idle"
  /\ m_ticker = 1
  /\ m_fit = ReturnValue(None, None)
  /\ m_units = 0
  /\ m_anchors = << >>
  /\ m_shape = NoShape
  /\ m_stages = [t \in Tickers |-> {}]
  /\ handed = [t \in Tickers |-> Pending]

\* lines 50-82: up to the call of prepare_stationary_data
MInit ==
  /\ m_pc = "prepare"
  /\ m_ticker = 1
  /\ m_fit = ReturnValue(None, None)
  /\ m_units = 0
  /\ m_anchors = << >>
  /\ m_shape = NoShape
  /\ m_stages = [t \in Tickers |-> {}]
  /\ handed = [t \in Tickers |-> Pending]

\* line 82: prepare_stationary_data has returned
MPrepared ==
  /\ m_pc = "prepare"
  /\ ps_pc = "returned"
  /\ m_pc' = "fit"
  /\ UNCHANGED <<m_ticker, m_fit, m_units, m_anchors, m_shape, m_stages, handed>>

\* lines 200-202: an exception of prepare_stationary_data is logged and raised again
MPrepareRaised ==
  /\ m_pc = "prepare"
  /\ ps_pc = "raised"
  /\ m_pc' = "raised"
  /\ UNCHANGED <<m_ticker, m_fit, m_units, m_anchors, m_shape, m_stages, handed>>

\* (mutation of AfterNoFit: break in place of continue)
AfterNoFitBreak(t) == NTickers + 1

\* line 93: continue -- the ticker the loop goes on with
AfterNoFit(t) == t + 1

\* lines 85-95: fit_arima(stationary_data[ticker]); continue when it returned None
MFit(result) ==
  /\ m_pc = "fit"
  /\ m_ticker <= NTickers
  /\ m_fit' = result
  /\ IF result[3] = None
       THEN /\ handed' = [handed EXCEPT ![m_ticker] = Skipped]
            /\ m_ticker' = AfterNoFit(m_ticker)
            /\ UNCHANGED m_pc
       ELSE /\ m_pc' = "generate"
            /\ UNCHANGED <<m_ticker, handed>>
  /\ UNCHANGED <<m_units, m_anchors, m_shape, m_stages>>

\* lines 97-99: generate_forecast_paths: the forecast and the paths continue the
\* series the model was fitted on, stationary_data[ticker]
MGenerate ==
  /\ m_pc = "generate"
  /\ m_units' = stationary_data[m_ticker].diffs
  /\ m_anchors' = << >>
  /\ m_shape' = [NoShape EXCEPT !.forecast = DEFAULT_FORECAST_STEPS,
                                !.paths = DEFAULT_N_PATHS]
  /\ m_stages' = [m_stages EXCEPT ![m_ticker] = @ \cup {"simulate"}]
  /\ m_pc' = "transform"
  /\ UNCHANGED <<m_ticker, m_fit, handed>>

\* lines 101-108: one call of transform_to_original_scale, anchored at the last
\* value of the undifferenced series, data[ticker].iloc[-1]
MTransform ==
  /\ m_pc = "transform"
  /\ m_units' = m_units - 1
  /\ m_anchors' = Append(m_anchors, 0)
  /\ m_shape' = [m_shape EXCEPT !.dates = m_shape.forecast]
  /\ m_stages' = [m_stages EXCEPT ![m_ticker] = @ \cup {"rescale"}]
  /\ m_pc' = "prompts"
  /\ UNCHANGED <<m_ticker, m_fit, handed>>

\* lines 110-141: the descriptions and prompts, process_prompts, and the
\* probabilities of the entries of analysis["analyses"]
MPrompts(count) ==
  /\ m_pc = "prompts"
  /\ m_stages' = [m_stages EXCEPT ![m_ticker] = @ \cup {"prompts"}]
  /\ m_pc' = "weight"
  /\ m_shape' = [m_shape EXCEPT !.scores = count]
  /\ UNCHANGED <<m_ticker, m_fit, m_units, m_anchors, handed>>

\* lines 127-130, 200-202: process_prompts raises (no response file, an API
\* request failing MAX_RETRIES times); main logs and raises again
MPromptsRaised ==
  /\ m_pc = "prompts"
  /\ m_stages' = [m_stages EXCEPT ![m_ticker] = @ \cup {"prompts"}]
  /\ m_pc' = "raised"
  /\ UNCHANGED <<m_ticker, m_fit, m_units, m_anchors, m_shape, handed>>

\* lines 143-160: calculate_threshold_weighted_forecast, called with threshold 2
\* and with the threshold read from the input; simulated_paths[mask] raises
\* IndexError when the mask is not as long as the paths are many
MWeight ==
  /\ m_pc = "weight"
  /\ m_stages' = [m_stages EXCEPT ![m_ticker] = @ \cup {"weight"}]
  /\ IF m_shape.scores # m_shape.paths
       THEN /\ m_pc' = "raised"
            /\ UNCHANGED m_shape
       ELSE /\ m_pc' = "export"
            /\ m_shape' = [m_shape EXCEPT !.threshold_weighted = m_shape.forecast,
                                          !.chatgpt_weighted = m_shape.forecast]
  /\ UNCHANGED <<m_ticker, m_fit, m_units, m_anchors, handed>>

\* lines 162-198: the plot, the export of the forecasts and the update of the
\* forecasts file; then the next ticker
MHandOff ==
  /\ m_pc = "export"
  /\ m_stages' = [m_stages EXCEPT ![m_ticker] = @ \cup {"export"}]
  /\ handed' = [handed EXCEPT ![m_ticker] =
                  [state |-> "handed", units |-> m_units, anchors |-> m_anchors]]
  /\ m_ticker' = m_ticker + 1
  /\ m_pc' = "fit"
  /\ UNCHANGED <<m_fit, m_units, m_anchors, m_shape>>

\* line 85: the for loop is over
MDone ==
  /\ m_pc = "fit"
  /\ m_ticker > NTickers
  /\ m_pc' = "done"
  /\ UNCHANGED <<m_ticker, m_fit, m_units, m_anchors, m_shape, m_stages, handed>>

MNext ==
  \/ /\ m_pc = "prepare"
     /\ PsNext
  \/ /\ MPrepared
     /\ UNCHANGED <<favars, psvars, tsvars, restvars>>
  \/ /\ MPrepareRaised
     /\ UNCHANGED <<favars, psvars, tsvars, restvars>>
  \/ /\ \E result \in FitResults : MFit(result)
     /\ UNCHANGED <<favars, psvars, tsvars, restvars>>
  \/ /\ MGenerate
     /\ UNCHANGED <<favars, psvars, tsvars, restvars>>
  \/ /\ MTransform
     /\ UNCHANGED <<favars, psvars, tsvars, restvars>>
  \/ /\ \E count \in ScoreCounts : MPrompts(count)
     /\ UNCHANGED <<favars, psvars, tsvars, restvars>>
  \/ /\ MPromptsRaised
     /\ UNCHANGED <<favars, psvars, tsvars, restvars>>
  \/ /\ MWeight
     /\ UNCHANGED <<favars, psvars, tsvars, restvars>>
  \/ /\ MHandOff
     /\ UNCHANGED <<favars, psvars, tsvars, restvars>>
  \/ /\ MDone
     /\ UNCHANGED <<favars, psvars, tsvars, restvars>>

(***************************************************************************)
(* calculate_threshold_weighted_forecast (main.py, fix_forecasts.py,       *)
(* process_adoption_forecasts.py) and the two calls of each producer       *)
(***************************************************************************)
Producers == {"main", "fix_forecasts", "process_adoption_forecasts"}

\* the threshold each producer passes for threshold_weighted_forecast
FixedThreshold(producer) ==
  IF producer = "main" THEN 2 ELSE 4

\* the inputs: rows of two steps, scores, thresholds of the caller
WeightRows == {<<10, 10>>, <<20, 20>>, <<30, 30>>, <<10, 30>>}
ScoreValues == {1, 3, 5, 9}
UserThresholds == {5}

\* a mean, kept exact: the sum and the number of values averaged
Mean(num, den) == [num |-> num, den |-> den]
SameMean(a, b) == a.den # 0 /\ b.den # 0 /\ a.num * b.den = b.num * a.den

\* (mutation of MeetsThreshold: > in place of >=)
ExceedsThreshold(weight, threshold) == weight > threshold

\* line 35: weights >= threshold, elementwise
MeetsThreshold(weight, threshold) == weight >= threshold

\* line 38: any(mask)
AnyOf(mask) == \E i \in 1..Len(mask) : mask[i]

\* (mutation of OnesLike: the empty selection is kept)
KeepMask(mask) == mask

\* line 40: np.ones_like(weights, dtype=bool)
OnesLike(mask) == [i \in 1..Len(mask) |-> TRUE]

\* line 43: simulated_paths[mask], the rows whose mask entry is True, in order
RECURSIVE BoolIndex(_, _, _)
BoolIndex(paths, mask, i) ==
  IF i > Len(paths) THEN << >>
  ELSE IF mask[i] THEN <<paths[i]>> \o BoolIndex(paths, mask, i + 1)
  ELSE BoolIndex(paths, mask, i + 1)

\* the sum of column k of the rows i..Len(rows)
RECURSIVE ColumnSum(_, _, _)
ColumnSum(rows, k, i) ==
  IF i > Len(rows) THEN 0 ELSE rows[i][k] + ColumnSum(rows, k, i + 1)

\* line 46: np.average(filtered_paths, axis=0); of no rows it is nan (0/0) per step
AverageAxis0(rows, width) ==
  [k \in 1..width |-> Mean(ColumnSum(rows, k, 1), Len(rows))]

NoForecasts ==
  [threshold_weighted_forecast |-> << >>, threshold_used |-> 0,
   threshold_warned |-> FALSE,
   chatgpt_weighted_forecast |-> << >>, chatgpt_used |-> 0,
   chatgpt_warned |-> FALSE]

WIdle ==
  /\ w_pc = "idle"
  /\ w_producer = "main"
  /\ w_call = 1
  /\ w_paths = << >>
  /\ w_weights = << >>
  /\ w_user = 0
  /\ w_threshold = 0
  /\ w_mask = << >>
  /\ w_warned = FALSE
  /\ w_out = NoForecasts

\* the producer has N paths and N scores and makes its first call
WInit(producer, paths, weights, user) ==
  /\ w_pc = "select"
  /\ w_producer = producer
  /\ w_call = 1
  /\ w_paths = paths
  /\ w_weights = weights
  /\ w_user = user
  /\ w_threshold = FixedThreshold(producer)
  /\ w_mask = << >>
  /\ w_warned = FALSE
  /\ w_out = NoForecasts

\* lines 35-40: the mask, and all paths when no path meets the threshold
WSelect ==
  /\ w_pc = "select"
  /\ LET mask == [i \in 1..Len(w_weights) |-> MeetsThreshold(w_weights[i], w_threshold)]
     IN  IF ~AnyOf(mask)
           THEN /\ w_warned' = TRUE
                /\ w_mask' = OnesLike(mask)
           ELSE /\ w_warned' = FALSE
                /\ w_mask' = mask
  /\ w_pc' = "average"
  /\ UNCHANGED <<w_producer, w_call, w_paths, w_weights, w_user, w_threshold, w_out>>

\* lines 43-48: the mean of the selected paths is returned; the producer keeps
\* it and, after the first call, makes the second with the caller's threshold
WAverage ==
  /\ w_pc = "average"
  /\ LET weighted_forecast == AverageAxis0(BoolIndex(w_paths, w_mask, 1), Len(w_paths[1]))
     IN  IF w_call = 1
           THEN /\ w_out' = [w_out EXCEPT
                               !.threshold_weighted_forecast = weighted_forecast,
                               !.threshold_used = w_threshold,
                               !.threshold_warned = w_warned]
                /\ w_call' = 2
                /\ w_threshold' = w_user
                /\ w_pc' = "select"
           ELSE /\ w_out' = [w_out EXCEPT
                               !.chatgpt_weighted_forecast = weighted_forecast,
                               !.chatgpt_used = w_threshold,
                               !.chatgpt_warned = w_warned]
                /\ w_pc' = "done"
                /\ UNCHANGED <<w_call, w_threshold>>
  /\ UNCHANGED <<w_producer, w_paths, w_weights, w_user, w_mask, w_warned>>

WNext ==
  \/ /\ WSelect
     /\ UNCHANGED <<favars, psvars, tsvars, mvars, xvars, gvars, rvars, pvars, svars,
                    avars, evars, dvars, fvars, vvars>>
  \/ /\ WAverage
     /\ UNCHANGED <<favars, psvars, tsvars, mvars, xvars, gvars, rvars, pvars, svars,
                    avars, evars, dvars, fvars, vvars>>

(***************************************************************************)
(* fix_forecasts.process_forecast_file                                     *)
(***************************************************************************)
\* a key the record does not have
Absent == 0

\* the threshold recalculate_weighted_forecasts takes when the record has none
DefaultNewThreshold == 6

\* the thresholds main reads from the input and stores (line 153)
StoredThresholds == {3, 5, 9}

\* forecasts_data, as far as the weighted forecasts go: whether simulated_paths
\* is there, the stored chatgpt_threshold, and the thresholds the stored
\* chatgpt_weighted_forecast and threshold_weighted_forecast were computed with
Record(paths, threshold, chatgpt_by, threshold_by) ==
  [simulated_paths |-> paths, chatgpt_threshold |-> threshold,
   chatgpt_weighted_by |-> chatgpt_by, threshold_weighted_by |-> threshold_by]

NoRecord == Record(FALSE, Absent, Absent, Absent)

\* main.py:145-160, 187-189 and visualization.py:250-256: the record main
\* writes for a threshold t read from the input
WrittenByMain(t) == Record(TRUE, t, t, FixedThreshold("main"))

\* the forecasts files process_forecast_file can find: main's records, the same
\* without simulated_paths, and records without the chatgpt fields
ForecastFiles ==
  {WrittenByMain(t) : t \in StoredThresholds} \cup
  {[WrittenByMain(t) EXCEPT !.simulated_paths = FALSE] : t \in StoredThresholds} \cup
  {Record(paths, Absent, Absent, Absent) : paths \in BOOLEAN}

AnalysisFiles == {"missing", "no_analyses", "short", "ok"}

XIdle ==
  /\ x_pc = "idle"
  /\ x_data = NoRecord
  /\ x_analysis = "missing"
  /\ x_written = NoRecord

\* lines 282-300: the forecasts file and, when it exists, analysis.json are read
XInit(data, analysis) ==
  /\ x_pc = "fix_arima"
  /\ x_data = data
  /\ x_analysis = analysis
  /\ x_written = NoRecord

\* line 303, lines 92-112: fix_arima_forecast_with_simulated_average changes
\* the arima_forecast entries only
XFixArima ==
  /\ x_pc = "fix_arima"
  /\ x_pc' = "adjust"
  /\ UNCHANGED <<x_data, x_analysis, x_written>>

\* line 124: float(forecasts_data['chatgpt_threshold'] + 1.0)
Adjusted(threshold) == threshold + 1

\* line 304, lines 114-127: adjust_thresholds
XAdjustThresholds ==
  /\ x_pc = "adjust"
  /\ x_data' = IF x_data.chatgpt_threshold # Absent
                 THEN [x_data EXCEPT !.chatgpt_threshold = Adjusted(@)]
                 ELSE x_data
  /\ x_pc' = "recalculate"
  /\ UNCHANGED <<x_analysis, x_written>>

\* line 59: forecasts_data.get('chatgpt_threshold', 6.0)
NewThreshold(data) ==
  IF data.chatgpt_threshold # Absent THEN data.chatgpt_threshold
  ELSE DefaultNewThreshold

\* line 305, lines 35-90: recalculate_weighted_forecasts. Without simulated
\* paths (lines 47-49) or without analyses (lines 52-56) the data is returned
\* as it is; so it is when the scores are not as many as the paths, the
\* IndexError of the weighting being caught at lines 88-90
XRecalculate ==
  /\ x_pc = "recalculate"
  /\ x_data' =
       IF ~x_data.simulated_paths THEN x_data
       ELSE IF x_analysis \in {"missing", "no_analyses"} THEN x_data
       ELSE IF x_analysis = "short" THEN x_data
       ELSE [x_data EXCEPT !.threshold_weighted_by = FixedThreshold("fix_forecasts"),
                           !.chatgpt_weighted_by = NewThreshold(x_data)]
  /\ x_pc' = "write"
  /\ UNCHANGED <<x_analysis, x_written>>

\* lines 307-310: the data is written to the _fixed file
XWrite ==
  /\ x_pc = "write"
  /\ x_written' = x_data
  /\ x_pc' = "done"
  /\ UNCHANGED <<x_data, x_analysis>>

XNext ==
  \/ /\ XFixArima
     /\ UNCHANGED <<favars, psvars, tsvars, mvars, wvars, gvars, rvars, pvars, svars,
                    avars, evars, dvars, fvars, vvars>>
  \/ /\ XAdjustThresholds
     /\ UNCHANGED <<favars, psvars, tsvars, mvars, wvars, gvars, rvars, pvars, svars,
                    avars, evars, dvars, fvars, vvars>>
  \/ /\ XRecalculate
     /\ UNCHANGED <<favars, psvars, tsvars, mvars, wvars, gvars, rvars, pvars, svars,
                    avars, evars, dvars, fvars, vvars>>
  \/ /\ XWrite
     /\ UNCHANGED <<favars, psvars, tsvars, mvars, wvars, gvars, rvars, pvars, svars,
                    avars, evars, dvars, fvars, vvars>>

(***************************************************************************)
(* generate_forecast_paths                                                 *)
(***************************************************************************)
NoBundle == [forecast |-> << >>, simulated_paths |-> << >>, returned |-> FALSE]

\* a value that is not finite (nan, inf or -inf), as the fitted model may give
NonFinite == 999
IsFinite(v) == v # NonFinite
\* what model_fit.forecast and model_fit.simulate may return for n periods:
\* n finite values, or a diverged row
ModelRows(n) == Rows(n) \cup {[k \in 1..n |-> NonFinite]}

GIdle ==
  /\ g_pc = "idle"
  /\ g_steps = 0
  /\ g_n_paths = 0
  /\ g_forecast = << >>
  /\ g_paths = << >>
  /\ g_calls = [forecast |-> 0, simulate |-> 0]
  /\ g_result = NoBundle

\* line 56: the call
GInit(steps, n_paths) ==
  /\ g_pc = "forecast"
  /\ g_steps = steps
  /\ g_n_paths = n_paths
  /\ g_forecast = << >>
  /\ g_paths = << >>
  /\ g_calls = [forecast |-> 0, simulate |-> 0]
  /\ g_result = NoBundle

\* line 68: forecast = model_fit.forecast(steps=steps), `steps` values
GForecast(values) ==
  /\ g_pc = "forecast"
  /\ g_forecast' = values
  /\ g_calls' = [g_calls EXCEPT !.forecast = @ + 1]
  /\ g_pc' = "simulate"
  /\ UNCHANGED <<g_steps, g_n_paths, g_paths, g_result>>

\* (mutation of InRange: the last pass is left out)
InRangeLessOne(passes, n_paths) == passes < n_paths - 1

\* line 72: for _ in range(n_paths)
InRange(passes, n_paths) == passes < n_paths

\* lines 72-74: sim = model_fit.simulate(nsimulations=steps), `steps` values,
\* appended to simulated_paths
GSimulate(values) ==
  /\ g_pc = "simulate"
  /\ InRange(Len(g_paths), g_n_paths)
  /\ g_paths' = Append(g_paths, values)
  /\ g_calls' = [g_calls EXCEPT !.simulate = @ + 1]
  /\ UNCHANGED <<g_pc, g_steps, g_n_paths, g_forecast, g_result>>

\* line 76: return forecast, np.array(simulated_paths)
GReturn ==
  /\ g_pc = "simulate"
  /\ ~InRange(Len(g_paths), g_n_paths)
  /\ g_result' = [forecast |-> g_forecast, simulated_paths |-> g_paths,
                  returned |-> TRUE]
  /\ g_pc' = "returned"
  /\ UNCHANGED <<g_steps, g_n_paths, g_forecast, g_paths, g_calls>>

GNext ==
  \/ /\ \E values \in ModelRows(g_steps) : GForecast(values)
     /\ UNCHANGED <<favars, psvars, tsvars, mvars, wvars, xvars, rvars, pvars, svars,
                    avars, evars, dvars, fvars, vvars>>
  \/ /\ \E values \in ModelRows(g_steps) : GSimulate(values)
     /\ UNCHANGED <<favars, psvars, tsvars, mvars, wvars, xvars, rvars, pvars, svars,
                    avars, evars, dvars, fvars, vvars>>
  \/ /\ GReturn
     /\ UNCHANGED <<favars, psvars, tsvars, mvars, wvars, xvars, rvars, pvars, svars,
                    avars, evars, dvars, fvars, vvars>>

(***************************************************************************)
(* fit_arima, twice on one series                                          *)
(***************************************************************************)
\* The series decides what fitting each candidate gives.  The candidates of
\* ProbeCandidates get any outcome each; every other candidate gets the outcome
\* `tail`: it raises, or it fits with the largest finite AIC.
ProbeCandidates == {0, 1, NCandidates \div 2, NCandidates - 1}
TailOutcomes == {FitError, MaxAIC}
Profiles == [probes : [ProbeCandidates -> FitOutcomes], tail : TailOutcomes]
NoProfile == [probes |-> << >>, tail |-> FitError]

\* model.fit() for candidate i on the series
OutcomeOf(profile, i) ==
  IF i \in ProbeCandidates THEN profile.probes[i] ELSE profile.tail

RIdle ==
  /\ r_run = 0
  /\ r_profile = NoProfile
  /\ r_first = None

\* the first call: fit_arima(series)
RInit(profile) ==
  /\ r_run = 1
  /\ r_profile = profile
  /\ r_first = None

\* (mutation of InitialBest: best_aic is kept from the previous call)
InitialBestCarried(previous) == previous

\* line 22: best_aic = float('inf'), at the start of every call
InitialBest(previous) == PosInf

\* the second call on the same series: lines 17-24 again
RSecondCall ==
  /\ r_run = 1
  /\ fa_pc = "returned"
  /\ r_first' = fa_result
  /\ r_run' = 2
  /\ fa_pc' = "scan"
  /\ fa_idx' = 0
  /\ best_aic' = InitialBest(best_aic)
  /\ best_order' = None
  /\ best_model' = None
  /\ fa_result' = None
  /\ fa_raised' = FALSE
  /\ attempts' = [i \in 0..(NCandidates - 1) |-> 0]
  /\ firstSeen' = [a \in FiniteAICs |-> 0]
  /\ sawNonFinite' = FALSE
  /\ lastFailed' = FALSE
  /\ UNCHANGED r_profile

RNext ==
  \/ /\ FitCandidate(OutcomeOf(r_profile, fa_idx))
     /\ UNCHANGED <<psvars, tsvars, mvars, restvars>>
  \/ /\ FitReturn
     /\ UNCHANGED <<psvars, tsvars, mvars, restvars>>
  \/ /\ RSecondCall
     /\ UNCHANGED <<psvars, tsvars, mvars, wvars, xvars, gvars, pvars, svars, avars,
                    evars, dvars, fvars, vvars>>

(***************************************************************************)
(* the candidate fits run in parallel, combined by the reduction of        *)
(* fit_arima (lines 35-38)                                                 *)
(***************************************************************************)
Workers == {1, 2}
\* worker 1 fits the candidates with p < 3, worker 2 those with p >= 3
ShareStart(w) == (w - 1) * (NCandidates \div 2)
ShareEnd(w) == w * (NCandidates \div 2)

PIdle ==
  /\ p_pc = "idle"
  /\ p_profile = NoProfile
  /\ p_next = [w \in Workers |-> 0]
  /\ p_best_aic = PosInf
  /\ p_best_order = None
  /\ p_best_model = None
  /\ p_result = None

PInit(profile) ==
  /\ p_pc = "run"
  /\ p_profile = profile
  /\ p_next = [w \in Workers |-> ShareStart(w)]
  /\ p_best_aic = PosInf
  /\ p_best_order = None
  /\ p_best_model = None
  /\ p_result = None

\* worker w's next fit completes and its result is combined with the best so
\* far: the body of the loop (lines 29-41) for that candidate
PComplete(w) ==
  /\ p_pc = "run"
  /\ p_next[w] < ShareEnd(w)
  /\ p_next' = [p_next EXCEPT ![w] = @ + 1]
  /\ IF /\ OutcomeOf(p_profile, p_next[w]) # FitError
        /\ IsBetter(OutcomeOf(p_profile, p_next[w]), p_best_aic)
       THEN /\ p_best_aic' = OutcomeOf(p_profile, p_next[w])
            /\ p_best_order' = OrderOf(p_next[w])
            /\ p_best_model' = <<CandP(p_next[w]), CandQ(p_next[w]),
                                 OutcomeOf(p_profile, p_next[w])>>
       ELSE UNCHANGED <<p_best_aic, p_best_order, p_best_model>>
  /\ UNCHANGED <<p_pc, p_profile, p_result>>

\* every fit has completed: lines 43-50
PReturn ==
  /\ p_pc = "run"
  /\ \A w \in Workers : p_next[w] = ShareEnd(w)
  /\ p_pc' = "returned"
  /\ p_result' = ReturnValue(p_best_model, p_best_order)
  /\ UNCHANGED <<p_profile, p_next, p_best_aic, p_best_order, p_best_model>>

PNext ==
  \/ /\ \E w \in Workers : PComplete(w)
     /\ UNCHANGED <<favars, psvars, tsvars, mvars, wvars, xvars, gvars, rvars, svars,
                    avars, evars, dvars, fvars, vvars>>
  \/ /\ PReturn
     /\ UNCHANGED <<favars, psvars, tsvars, mvars, wvars, xvars, gvars, rvars, svars,
                    avars, evars, dvars, fvars, vvars>>

\* lines 27-41 as a function of the outcomes: the scan from candidate i on,
\* with the best so far
RECURSIVE ScanFrom(_, _, _)
ScanFrom(profile, i, best) ==
  IF i >= NCandidates THEN best
  ELSE IF /\ OutcomeOf(profile, i) # FitError
          /\ IsBetter(OutcomeOf(profile, i), best.aic)
         THEN ScanFrom(profile, i + 1,
                       [aic |-> OutcomeOf(profile, i), order |-> OrderOf(i),
                        model |-> <<CandP(i), CandQ(i), OutcomeOf(profile, i)>>])
         ELSE ScanFrom(profile, i + 1, best)

\* fit_arima(series), run sequentially: lines 22-50
SequentialResult(profile) ==
  LET best == ScanFrom(profile, 0,
                       [aic |-> PosInf, order |-> None, model |-> None])
  IN  ReturnValue(best.model, best.order)

(***************************************************************************)
(* the scores of the paths, read from the analysis                         *)
(***************************************************************************)
SIdle == s_analyses = << >>

\* analysis["analyses"] for n paths: one entry per path, each path_id once, in
\* any order (the reasoning text, read by nothing, is left out)
AnalysesLists(n) ==
  {a \in [1..n -> [path_id : 1..n, probability : ScoreValues]] :
     \A i, j \in 1..n : a[i].path_id = a[j].path_id => i = j}

\* n paths that differ from one another
DistinctRows(n) == [i \in 1..n |-> <<10 * i, 10 * i>>]

\* (mutation of Probabilities: the score of row i is looked up by path_id)
ProbabilitiesByPathId(analyses) ==
  [i \in 1..Len(analyses) |->
     analyses[CHOOSE j \in 1..Len(analyses) : analyses[j].path_id = i].probability]

\* main.py line 141 (fix_forecasts.py line 52):
\* np.array([a["probability"] for a in analysis["analyses"]])
Probabilities(analyses) ==
  [i \in 1..Len(analyses) |-> analyses[i].probability]

(***************************************************************************)
(* ChatGPTHandler._process_api                                             *)
(***************************************************************************)
\* config.py: MAX_RETRIES
MAX_RETRIES == 3
\* main.py lines 127-130: the three prompts handed to process_prompts
NPrompts == 3
PromptIndexes == 0..(NPrompts - 1)

NoDictionary == [returned |-> FALSE, keys |-> {}]

AIdle ==
  /\ a_pc = "idle"
  /\ a_i = 0
  /\ a_attempt = 0
  /\ a_responses = {}
  /\ a_sent = [i \in PromptIndexes |-> 0]
  /\ a_slept = 0
  /\ a_returned = NoDictionary

\* line 170: responses = {}
AInit ==
  /\ a_pc = "setup"
  /\ a_i = 0
  /\ a_attempt = 0
  /\ a_responses = {}
  /\ a_sent = [i \in PromptIndexes |-> 0]
  /\ a_slept = 0
  /\ a_returned = NoDictionary

\* lines 173-190: the directory, the copy of the historical data, the paths
\* file, the historical data read back; any of these may raise
ASetup(ok) ==
  /\ a_pc = "setup"
  /\ a_pc' = IF ok THEN "prompt" ELSE "raised"
  /\ UNCHANGED <<a_i, a_attempt, a_responses, a_sent, a_slept, a_returned>>

\* lines 193-209: the next prompt of the enumeration is prepared and saved;
\* line 225 when the enumeration is over
APrompt ==
  /\ a_pc = "prompt"
  /\ IF a_i < NPrompts
       THEN /\ a_pc' = "request"
            /\ a_attempt' = 0
            /\ UNCHANGED a_returned
       ELSE /\ a_pc' = "returned"
            /\ a_returned' = [returned |-> TRUE, keys |-> a_responses]
            /\ UNCHANGED a_attempt
  /\ UNCHANGED <<a_i, a_responses, a_sent, a_slept>>

\* (mutation of LastAttempt: the test is off by one, it never holds in the loop)
LastAttemptOffByOne(attempt) == attempt = MAX_RETRIES

\* line 220: if attempt == MAX_RETRIES - 1
LastAttempt(attempt) == attempt = MAX_RETRIES - 1

\* lines 213-221: one pass of for attempt in range(MAX_RETRIES), up to the
\* break, the raise or the sleep
ARequest(ok) ==
  /\ a_pc = "request"
  /\ a_sent' = [a_sent EXCEPT ![a_i] = @ + 1]
  /\ IF ok
       THEN /\ a_responses' = a_responses \cup {a_i + 1}
            /\ a_i' = a_i + 1
            /\ a_pc' = "prompt"
       ELSE /\ a_pc' = IF LastAttempt(a_attempt) THEN "raised" ELSE "sleep"
            /\ UNCHANGED <<a_responses, a_i>>
  /\ UNCHANGED <<a_attempt, a_slept, a_returned>>

\* lines 222-223: time.sleep(2 ** attempt), then the next pass of the range,
\* or the next prompt when the range is used up
ASleep ==
  /\ a_pc = "sleep"
  /\ a_slept' = a_slept + 2 ^ a_attempt
  /\ IF a_attempt + 1 < MAX_RETRIES
       THEN /\ a_attempt' = a_attempt + 1
            /\ a_pc' = "request"
            /\ UNCHANGED a_i
       ELSE /\ a_i' = a_i + 1
            /\ a_pc' = "prompt"
            /\ UNCHANGED a_attempt
  /\ UNCHANGED <<a_responses, a_sent, a_returned>>

ANext ==
  \/ /\ \E ok \in BOOLEAN : ASetup(ok)
     /\ UNCHANGED <<favars, psvars, tsvars, mvars, wvars, xvars, gvars, rvars, pvars,
                    svars, evars, dvars, fvars, vvars>>
  \/ /\ APrompt
     /\ UNCHANGED <<favars, psvars, tsvars, mvars, wvars, xvars, gvars, rvars, pvars,
                    svars, evars, dvars, fvars, vvars>>
  \/ /\ \E ok \in BOOLEAN : ARequest(ok)
     /\ UNCHANGED <<favars, psvars, tsvars, mvars, wvars, xvars, gvars, rvars, pvars,
                    svars, evars, dvars, fvars, vvars>>
  \/ /\ ASleep
     /\ UNCHANGED <<favars, psvars, tsvars, mvars, wvars, xvars, gvars, rvars, pvars,
                    svars, evars, dvars, fvars, vvars>>

(***************************************************************************)
(* chatgpt_handler._create_timestamped_dir and                             *)
(* evaluate_forecasts.load_forecast_data                                   *)
(***************************************************************************)
NoLoad == [ticker |-> 0, day |-> 0, result |-> "none"]

EIdle ==
  /\ e_today = 0
  /\ e_dirs = {}
  /\ e_runs = {}
  /\ e_load = NoLoad

EInit ==
  /\ e_today = 1
  /\ e_dirs = {}
  /\ e_runs = {}
  /\ e_load = NoLoad

\* a directory name, by its parts: what stands before the ticker, the ticker,
\* the number of forecast steps and the date as %Y%m%d
DirName(prefix, ticker, steps, date) ==
  [prefix |-> prefix, ticker |-> ticker, steps |-> steps, date |-> date]

\* chatgpt_handler.py lines 35-36:
\* f"adoption_{ticker}_forecast{DEFAULT_FORECAST_STEPS}days_{timestamp}"
CreatedDirName(ticker, today) ==
  DirName("adoption_", ticker, DEFAULT_FORECAST_STEPS, today)

\* evaluate_forecasts.py lines 20-23:
\* f"{ticker}_forecast{DEFAULT_FORECAST_STEPS}days_{yesterday}"
ExpectedDirName(ticker, today) ==
  DirName("", ticker, DEFAULT_FORECAST_STEPS, today - 1)

\* main.py lines 127-192 for one ticker: the handler creates today's directory
\* and the forecasts file is written into it
ERun(ticker) ==
  /\ e_load.result = "none"
  /\ e_dirs' = e_dirs \cup {CreatedDirName(ticker, e_today)}
  /\ e_runs' = e_runs \cup {<<ticker, e_today>>}
  /\ UNCHANGED <<e_today, e_load>>

\* midnight
EDayPasses ==
  /\ e_load.result = "none"
  /\ e_today < MaxDay
  /\ e_today' = e_today + 1
  /\ UNCHANGED <<e_dirs, e_runs, e_load>>

\* evaluate_forecasts.py lines 12-36: load_forecast_data(ticker)
ELoad(ticker) ==
  /\ e_load.result = "none"
  /\ e_load' = [ticker |-> ticker, day |-> e_today,
                result |-> IF ExpectedDirName(ticker, e_today) \in e_dirs
                             THEN "loaded" ELSE "FileNotFoundError"]
  /\ UNCHANGED <<e_today, e_dirs, e_runs>>

ENext ==
  \/ /\ \E ticker \in Tickers : ERun(ticker)
     /\ UNCHANGED <<favars, psvars, tsvars, mvars, wvars, xvars, gvars, rvars, pvars,
                    svars, avars, dvars, fvars, vvars>>
  \/ /\ EDayPasses
     /\ UNCHANGED <<favars, psvars, tsvars, mvars, wvars, xvars, gvars, rvars, pvars,
                    svars, avars, dvars, fvars, vvars>>
  \/ /\ \E ticker \in Tickers : ELoad(ticker)
     /\ UNCHANGED <<favars, psvars, tsvars, mvars, wvars, xvars, gvars, rvars, pvars,
                    svars, avars, dvars, fvars, vvars>>

(***************************************************************************)
(* path_descriptions.generate_path_description                             *)
(***************************************************************************)
\* previous_change = None
NoChange == [none |-> TRUE, from |-> 0, to |-> 0, num |-> 0, den |-> 1]

DIdle ==
  /\ d_pc = "idle"
  /\ d_path = << >>
  /\ d_start = 0
  /\ d_end = 0
  /\ d_last = 0
  /\ d_business_days = << >>
  /\ d_holidays = {}
  /\ d_iters = 0
  /\ d_i = 0
  /\ d_first_day = TRUE
  /\ d_previous_change = NoChange
  /\ d_current_date = 0
  /\ d_description = << >>

\* line 10: the call
DInit(path, start, end, last) ==
  /\ d_pc = "range"
  /\ d_path = path
  /\ d_start = start
  /\ d_end = end
  /\ d_last = last
  /\ d_business_days = << >>
  /\ d_holidays = {}
  /\ d_iters = 0
  /\ d_i = 0
  /\ d_first_day = TRUE
  /\ d_previous_change = NoChange
  /\ d_current_date = 0
  /\ d_description = << >>

\* pd.date_range(start=a, end=b, freq='B'): the weekdays from a to b, in order
RECURSIVE DateRangeB(_, _)
DateRangeB(a, b) ==
  IF a > b THEN << >>
  ELSE (IF Weekday(a) < 5 THEN <<a>> ELSE << >>) \o DateRangeB(a + 1, b)

\* cal.holidays(start=a, end=b)
HolidaysIn(a, b) == {h \in USFederalHolidays : a <= h /\ h <= b}

\* business_days[~business_days.isin(holidays)]
RECURSIVE NotIn(_, _)
NotIn(days, hol) ==
  IF days = << >> THEN << >>
  ELSE (IF Head(days) \in hol THEN << >> ELSE <<Head(days)>>) \o NotIn(Tail(days), hol)

\* lines 22-27; business_days[0] of an empty range raises IndexError
DBusinessDays ==
  /\ d_pc = "range"
  /\ LET days == DateRangeB(d_start + 1, d_end)
     IN  IF days = << >>
           THEN /\ d_pc' = "raised"
                /\ UNCHANGED <<d_business_days, d_holidays>>
           ELSE /\ d_holidays' = HolidaysIn(days[1], days[Len(days)])
                /\ d_business_days' = NotIn(days, HolidaysIn(days[1], days[Len(days)]))
                /\ d_pc' = "extend"
  /\ UNCHANGED <<d_path, d_start, d_end, d_last, d_iters, d_i, d_first_day,
                 d_previous_change, d_current_date, d_description>>

\* lines 30-33: one pass through the while body; business_days[-1] of an empty
\* index raises IndexError
DExtend ==
  /\ d_pc = "extend"
  /\ Len(d_business_days) < Len(d_path) - 1
  /\ d_iters < MaxPasses
  /\ d_iters' = d_iters + 1
  /\ IF d_business_days = << >>
       THEN /\ d_pc' = "raised"
            /\ UNCHANGED d_business_days
       ELSE LET next_day == d_business_days[Len(d_business_days)] + 1
            IN  /\ d_business_days' =
                     IF Weekday(next_day) < 5 /\ next_day \notin d_holidays
                       THEN Append(d_business_days, next_day)
                       ELSE d_business_days
                /\ UNCHANGED d_pc
  /\ UNCHANGED <<d_path, d_start, d_end, d_last, d_holidays, d_i, d_first_day,
                 d_previous_change, d_current_date, d_description>>

\* lines 30, 35-39, 77-78: the while loop is left
DExtended ==
  /\ d_pc = "extend"
  /\ ~(Len(d_business_days) < Len(d_path) - 1)
  /\ d_current_date' = d_start
  /\ d_pc' = IF Len(d_path) = 1 THEN "single" ELSE "steps"
  /\ UNCHANGED <<d_path, d_start, d_end, d_last, d_business_days, d_holidays,
                 d_iters, d_i, d_first_day, d_previous_change, d_description>>

\* the price a movement starts from or leads to: step k of the path, or the
\* last historical value (k = -1)
PriceAt(k) == IF k = -1 THEN d_last ELSE d_path[k + 1]

\* ((to - from) / from) * 100, kept exact, with the steps it was computed from
Change(from, to) ==
  [none |-> FALSE, from |-> from, to |-> to,
   num |-> (PriceAt(to) - PriceAt(from)) * 100, den |-> PriceAt(from)]
Above(c, percent) == c.num > percent * c.den
Below(c, percent) == c.num < percent * c.den

\* lines 59-72 and 105-118: the wording of a dated movement
DatedWords(c) ==
  IF Above(c, 0)
    THEN IF Above(c, 5) THEN "shows a strong increase of"
         ELSE IF Above(c, 2) THEN "rises by"
         ELSE "gains"
    ELSE IF Below(c, 0 - 5) THEN "experiences a significant drop of"
         ELSE IF Below(c, 0 - 2) THEN "falls by"
         ELSE "declines by"

\* lines 124-137: the wording of two movements told in one sentence
PairWords(prev, c) ==
  IF Above(prev, 0) /\ Above(c, 0)
    THEN IF Above(prev, 5) \/ Above(c, 5)
           THEN "continues its upward trend, gaining .. and then .. the next day"
           ELSE "rises by .. and gains another .. the next day"
  ELSE IF Below(prev, 0) /\ Below(c, 0)
    THEN IF Below(prev, 0 - 5) \/ Below(c, 0 - 5)
           THEN "continues its downward trend, falling .. and then .. the next day"
           ELSE "declines by .. and falls another .. the next day"
  ELSE IF Above(prev, 0) /\ Below(c, 0)
    THEN "After rising by .., falls by .. the next day"
  ELSE "After falling by .., gains .. the next day"

\* a sentence of the description: the date it names (0: none), the closed days
\* it lists, the movements it tells and its wording
Sentence(kind, date, days, moves, words) ==
  [kind |-> kind, date |-> date, days |-> days, moves |-> moves, words |-> words]

\* lines 47-52 and 92-97: a sentence for every holiday on a weekday strictly
\* between the two dates
RECURSIVE HolidaySentences(_, _)
HolidaySentences(d, date) ==
  IF d >= date THEN << >>
  ELSE (IF Weekday(d) < 5 /\ d \in d_holidays
          THEN <<Sentence("holiday", d, << >>, << >>, "the market is closed due to a holiday")>>
          ELSE << >>) \o HolidaySentences(d + 1, date)

\* lines 47-50 and 92-95: the weekend days strictly between the two dates
RECURSIVE WeekendDays(_, _)
WeekendDays(d, date) ==
  IF d >= date THEN << >>
  ELSE (IF Weekday(d) >= 5 THEN <<d>> ELSE << >>) \o WeekendDays(d + 1, date)

\* lines 44-56 and 89-101
ClosedSentences(current, date) ==
  IF date - current > 1
    THEN HolidaySentences(current + 1, date) \o
         (IF WeekendDays(current + 1, date) # << >>
            THEN <<Sentence("weekend", 0, WeekendDays(current + 1, date), << >>,
                            "are weekend days with no trading")>>
            ELSE << >>)
    ELSE << >>

\* lines 39-74: the single-step forecast
DSingle ==
  /\ d_pc = "single"
  /\ LET change == Change(-1, 0)
         date   == IF Len(d_business_days) > 0 THEN d_business_days[1]
                   ELSE d_start + 1
     IN  d_description' =
           d_description \o ClosedSentences(d_current_date, date) \o
           <<Sentence("dated", date, << >>, <<change>>, DatedWords(change))>>
  /\ d_pc' = "done"
  /\ UNCHANGED <<d_path, d_start, d_end, d_last, d_business_days, d_holidays,
                 d_iters, d_i, d_first_day, d_previous_change, d_current_date>>

\* lines 80-142: one pass of for i, date in enumerate(business_days)
DStep ==
  /\ d_pc = "steps"
  /\ d_i < Len(d_business_days)
  /\ d_i' = d_i + 1
  /\ IF d_i < Len(d_path) - 1
       THEN LET date   == d_business_days[d_i + 1]
                change == IF d_first_day THEN Change(-1, d_i)
                          ELSE Change(d_i, d_i + 1)
                closed == ClosedSentences(d_current_date, date)
            IN  /\ d_current_date' = date
                /\ d_first_day' = FALSE
                /\ IF d_first_day
                     THEN /\ d_description' =
                               d_description \o closed \o
                               <<Sentence("dated", date, << >>, <<change>>,
                                          DatedWords(change))>>
                          /\ d_previous_change' = change
                     ELSE IF ~d_previous_change.none
                       THEN /\ d_description' =
                                 d_description \o closed \o
                                 <<Sentence("pair", 0, << >>,
                                            <<d_previous_change, change>>,
                                            PairWords(d_previous_change, change))>>
                            /\ d_previous_change' = NoChange
                       ELSE /\ d_description' = d_description \o closed
                            /\ d_previous_change' = change
       ELSE UNCHANGED <<d_current_date, d_first_day, d_description,
                        d_previous_change>>
  /\ UNCHANGED <<d_pc, d_path, d_start, d_end, d_last, d_business_days,
                 d_holidays, d_iters>>

\* lines 144-161: the movement left over, and the return
DLast ==
  /\ d_pc = "steps"
  /\ ~(d_i < Len(d_business_days))
  /\ d_description' =
       IF ~d_previous_change.none
         THEN Append(d_description,
                     Sentence("last", 0, << >>, <<d_previous_change>>,
                              DatedWords(d_previous_change)))
         ELSE d_description
  /\ d_pc' = "done"
  /\ UNCHANGED <<d_path, d_start, d_end, d_last, d_business_days, d_holidays,
                 d_iters, d_i, d_first_day, d_previous_change, d_current_date>>

DNext ==
  \/ /\ DBusinessDays
     /\ UNCHANGED <<favars, psvars, tsvars, mvars, wvars, xvars, gvars, rvars, pvars,
                    svars, avars, evars, fvars, vvars>>
  \/ /\ DExtend
     /\ UNCHANGED <<favars, psvars, tsvars, mvars, wvars, xvars, gvars, rvars, pvars,
                    svars, avars, evars, fvars, vvars>>
  \/ /\ DExtended
     /\ UNCHANGED <<favars, psvars, tsvars, mvars, wvars, xvars, gvars, rvars, pvars,
                    svars, avars, evars, fvars, vvars>>
  \/ /\ DSingle
     /\ UNCHANGED <<favars, psvars, tsvars, mvars, wvars, xvars, gvars, rvars, pvars,
                    svars, avars, evars, fvars, vvars>>
  \/ /\ DStep
     /\ UNCHANGED <<favars, psvars, tsvars, mvars, wvars, xvars, gvars, rvars, pvars,
                    svars, avars, evars, fvars, vvars>>
  \/ /\ DLast
     /\ UNCHANGED <<favars, psvars, tsvars, mvars, wvars, xvars, gvars, rvars, pvars,
                    svars, avars, evars, fvars, vvars>>

\* the inputs: prices, the last historical price, the dates
PathPrices == {100, 103, 110}
LastPrices == {105}
PricePaths(n) == [1..n -> PathPrices]
EndDates(start) == (start + 1)..(start + AnchorSpan)

(***************************************************************************)
(* fix_forecasts.main                                                      *)
(***************************************************************************)
\* file names, cut where the patterns of lines 308, 339 and 342 cut them
ForecastsName == <<"ticker", "_forecasts", ".json">>
FixedForecastsName == <<"ticker", "_forecasts", "_fixed", ".json">>
FileNames == {ForecastsName, FixedForecastsName}

\* the run directories under output/, numbered in sorted order
OutputDirs == 1..2
Paths == [dir : OutputDirs, name : FileNames]

\* str.endswith
EndsWith(name, suffix) ==
  /\ Len(name) >= Len(suffix)
  /\ SubSeq(name, Len(name) - Len(suffix) + 1, Len(name)) = suffix

\* line 339: the pattern *_forecasts.json
GlobMatches(name) == EndsWith(name, <<"_forecasts", ".json">>)

\* line 342: f.endswith('_fixed.json')
IsFixedName(name) == EndsWith(name, <<"_fixed", ".json">>)

\* str.replace('_forecasts.json', '_forecasts_fixed.json'), every occurrence
RECURSIVE ReplaceForecasts(_)
ReplaceForecasts(name) ==
  IF name = << >> THEN << >>
  ELSE IF Len(name) >= 2 /\ SubSeq(name, 1, 2) = <<"_forecasts", ".json">>
    THEN <<"_forecasts", "_fixed", ".json">> \o ReplaceForecasts(SubSeq(name, 3, Len(name)))
  ELSE <<Head(name)>> \o ReplaceForecasts(Tail(name))

\* a mutation of line 308: the data is written back to the file it was read from
FixedPathInPlace(path) == path

\* line 308: fixed_forecasts_path
FixedPath(path) == [path EXCEPT !.name = ReplaceForecasts(@)]

\* what a path of the tree holds
MissingFile == [state |-> "missing", data |-> NoRecord]
UnreadableFile == [state |-> "unreadable", data |-> NoRecord]
FileOf(data) == [state |-> "file", data |-> data]

\* lines 114-127: adjust_thresholds
AdjustThresholds(data) ==
  IF data.chatgpt_threshold # Absent
    THEN [data EXCEPT !.chatgpt_threshold = Adjusted(@)]
    ELSE data

\* lines 35-90: recalculate_weighted_forecasts
RecalculateWeighted(data, analysis) ==
  IF ~data.simulated_paths THEN data
  ELSE IF analysis \in {"missing", "no_analyses"} THEN data
  ELSE IF analysis = "short" THEN data
  ELSE [data EXCEPT !.threshold_weighted_by = FixedThreshold("fix_forecasts"),
                    !.chatgpt_weighted_by = NewThreshold(data)]

\* lines 303-305: the three corrections, in order
Corrected(data, analysis) ==
  RecalculateWeighted(AdjustThresholds(data), analysis)

FIdle ==
  /\ f_pc = "idle"
  /\ f_run = 0
  /\ f_tree = [p \in Paths |-> MissingFile]
  /\ f_analysis = [d \in OutputDirs |-> "missing"]
  /\ f_queue = << >>
  /\ f_successful = 0
  /\ f_failed = 0
  /\ f_inputs = {}
  /\ f_written = {}
  /\ f_log = << >>
  /\ f_initial = [p \in Paths |-> MissingFile]

\* line 323: main is started on a tree
FInit(tree, analysis) ==
  /\ f_pc = "glob"
  /\ f_run = 1
  /\ f_tree = tree
  /\ f_analysis = analysis
  /\ f_queue = << >>
  /\ f_successful = 0
  /\ f_failed = 0
  /\ f_inputs = {}
  /\ f_written = {}
  /\ f_log = << >>
  /\ f_initial = tree

\* sorted(forecast_files): by directory, then by name ('.' sorts before '_')
InDir(d, name, found) ==
  IF [dir |-> d, name |-> name] \in found THEN <<[dir |-> d, name |-> name]>>
  ELSE << >>
RECURSIVE SortedFrom(_, _)
SortedFrom(d, found) ==
  IF d \notin OutputDirs THEN << >>
  ELSE InDir(d, ForecastsName, found) \o InDir(d, FixedForecastsName, found)
         \o SortedFrom(d + 1, found)

\* lines 339-342: the files the glob finds, less those the filter removes
ForecastFilesFound(tree) ==
  {p \in {q \in Paths : tree[q].state # "missing" /\ GlobMatches(q.name)} :
     ~IsFixedName(p.name)}

\* lines 331-349: the files are collected; main returns when there are none
FGlob ==
  /\ f_pc = "glob"
  /\ IF ForecastFilesFound(f_tree) = {}
       THEN /\ f_pc' = "returned"
            /\ f_log' = Append(f_log, [inputs |-> f_inputs, written |-> f_written])
            /\ UNCHANGED f_queue
       ELSE /\ f_pc' = "process"
            /\ f_queue' = SortedFrom(1, ForecastFilesFound(f_tree))
            /\ UNCHANGED f_log
  /\ UNCHANGED <<f_run, f_tree, f_analysis, f_successful, f_failed, f_inputs,
                 f_written, f_initial>>

\* lines 352-356 and 275-321: process_forecast_file on the next file; a file
\* json.load cannot read raises at line 290 and is counted as failed
FProcess ==
  /\ f_pc = "process"
  /\ f_queue # << >>
  /\ LET path == Head(f_queue)
     IN  /\ f_inputs' = f_inputs \cup {path}
         /\ IF f_tree[path].state = "unreadable"
              THEN /\ f_failed' = f_failed + 1
                   /\ UNCHANGED <<f_tree, f_written, f_successful>>
              ELSE LET data == Corrected(f_tree[path].data, f_analysis[path.dir])
                   IN  /\ f_tree' = [f_tree EXCEPT ![FixedPath(path)] = FileOf(data)]
                       /\ f_written' = f_written \cup {<<FixedPath(path), data>>}
                       /\ f_successful' = f_successful + 1
                       /\ UNCHANGED f_failed
  /\ f_queue' = Tail(f_queue)
  /\ UNCHANGED <<f_pc, f_run, f_analysis, f_log, f_initial>>

\* lines 358-369: the loop is over and main returns
FReturn ==
  /\ f_pc = "process"
  /\ f_queue = << >>
  /\ f_pc' = "returned"
  /\ f_log' = Append(f_log, [inputs |-> f_inputs, written |-> f_written])
  /\ UNCHANGED <<f_run, f_tree, f_analysis, f_queue, f_successful, f_failed,
                 f_inputs, f_written, f_initial>>

\* line 323: main is run again on the tree the run before left
FRunAgain ==
  /\ f_pc = "returned"
  /\ f_run < MaxRuns
  /\ f_run' = f_run + 1
  /\ f_pc' = "glob"
  /\ f_queue' = << >>
  /\ f_successful' = 0
  /\ f_failed' = 0
  /\ f_inputs' = {}
  /\ f_written' = {}
  /\ UNCHANGED <<f_tree, f_analysis, f_log, f_initial>>

FNext ==
  \/ /\ FGlob
     /\ UNCHANGED <<favars, psvars, tsvars, mvars, wvars, xvars, gvars, rvars, pvars,
                    svars, avars, evars, dvars, vvars>>
  \/ /\ FProcess
     /\ UNCHANGED <<favars, psvars, tsvars, mvars, wvars, xvars, gvars, rvars, pvars,
                    svars, avars, evars, dvars, vvars>>
  \/ /\ FReturn
     /\ UNCHANGED <<favars, psvars, tsvars, mvars, wvars, xvars, gvars, rvars, pvars,
                    svars, avars, evars, dvars, vvars>>
  \/ /\ FRunAgain
     /\ UNCHANGED <<favars, psvars, tsvars, mvars, wvars, xvars, gvars, rvars, pvars,
                    svars, avars, evars, dvars, vvars>>

\* the trees main is started on: in every directory the forecasts file is
\* missing, unreadable or one of ForecastFiles, and a fixed file may be left
\* from an earlier run
ForecastEntries == {MissingFile, UnreadableFile} \cup {FileOf(d) : d \in ForecastFiles}
FixedEntries == {MissingFile} \cup {FileOf(WrittenByMain(t)) : t \in {5}}
OutputTrees ==
  {t \in [Paths -> ForecastEntries \cup FixedEntries] :
     \A p \in Paths : IF p.name = ForecastsName THEN t[p] \in ForecastEntries
                      ELSE t[p] \in FixedEntries}

(***************************************************************************)
(* visualization.plot_forecast_comparison and export_forecast_paths: dates *)
(***************************************************************************)
NoExport == [arima_forecast |-> << >>, forecast_start_date |-> << >>,
             forecast_end_date |-> << >>, written |-> FALSE]

VIdle ==
  /\ v_pc = "idle"
  /\ v_forecast_steps = 0
  /\ v_last_historical_date = 0
  /\ v_holidays = {}
  /\ v_forecast_dates = << >>
  /\ v_current_date = 0
  /\ v_export = NoExport

\* main.py:164-171: the call main makes after transform_to_original_scale, with
\* the series and the forecast_steps it gave to the forecast
VInit(steps, date) ==
  /\ v_pc = "waiting"
  /\ v_forecast_steps = steps
  /\ v_last_historical_date = date
  /\ v_holidays = {}
  /\ v_forecast_dates = << >>
  /\ v_current_date = 0
  /\ v_export = NoExport

\* line 50: max_days = forecast_steps * 4
MaxDays(steps) == steps * 4

\* lines 42-55: the call, up to the loop (the calendar of USFederalHolidays
\* ends with 2025; the loop below stays inside it)
VCall ==
  /\ v_pc = "waiting"
  /\ ts_pc = "returned"
  /\ v_holidays' = HolidaysIn(v_last_historical_date,
                              v_last_historical_date + MaxDays(v_forecast_steps))
  /\ v_forecast_dates' = << >>
  /\ v_current_date' = v_last_historical_date + 1
  /\ v_pc' = "dates"
  /\ UNCHANGED <<v_forecast_steps, v_last_historical_date, v_export>>

\* lines 57-60: one pass through the while body
VDateLoop ==
  /\ v_pc = "dates"
  /\ Len(v_forecast_dates) < v_forecast_steps
  /\ v_forecast_dates' =
       IF Weekday(v_current_date) < 5 /\ v_current_date \notin v_holidays
         THEN Append(v_forecast_dates, v_current_date)
         ELSE v_forecast_dates
  /\ v_current_date' = v_current_date + 1
  /\ UNCHANGED <<v_pc, v_forecast_steps, v_last_historical_date, v_holidays,
                 v_export>>

\* the days of the months of a year of the calendar
MonthLengths(year) ==
  <<31, IF year = 2024 THEN 29 ELSE 28, 31, 30, 31, 30, 31, 31, 30, 31, 30, 31>>

\* the day number of January 1st
YearStart(year) == IF year = 2024 THEN 0 ELSE 366

\* date.strftime('%Y-%m-%d'): the year, month and day of a day number
Strftime(d) ==
  LET year  == IF d < YearStart(2025) THEN 2024 ELSE 2025
      dayno == d - YearStart(year)
      month == CHOOSE m \in 1..12 :
                 /\ SumRange(MonthLengths(year), 1, m - 1) <= dayno
                 /\ dayno < SumRange(MonthLengths(year), 1, m)
  IN  [year |-> year, month |-> month,
       day |-> dayno - SumRange(MonthLengths(year), 1, month - 1) + 1]

\* lines 62, 139 and 211-236: the loop is over; export_forecast_paths writes
\* the dates
VExport ==
  /\ v_pc = "dates"
  /\ ~(Len(v_forecast_dates) < v_forecast_steps)
  /\ v_export' =
       [arima_forecast |->
          [k \in 1..Len(v_forecast_dates) |-> Strftime(v_forecast_dates[k])],
        forecast_start_date |-> <<Strftime(v_forecast_dates[1])>>,
        forecast_end_date |-> <<Strftime(v_forecast_dates[Len(v_forecast_dates)])>>,
        written |-> TRUE]
  /\ v_pc' = "exported"
  /\ UNCHANGED <<v_forecast_steps, v_last_historical_date, v_holidays,
                 v_forecast_dates, v_current_date>>

VNext ==
  \/ /\ VCall
     /\ UNCHANGED <<favars, psvars, tsvars, mvars, wvars, xvars, gvars, rvars,
                    pvars, svars, avars, evars, dvars, fvars>>
  \/ /\ VDateLoop
     /\ UNCHANGED <<favars, psvars, tsvars, mvars, wvars, xvars, gvars, rvars,
                    pvars, svars, avars, evars, dvars, fvars>>
  \/ /\ VExport
     /\ UNCHANGED <<favars, psvars, tsvars, mvars, wvars, xvars, gvars, rvars,
                    pvars, svars, avars, evars, dvars, fvars>>

\* main.py:106 and 164: transform_to_original_scale, then plot_forecast_comparison
PlotNext == TsNext \/ VNext

\* the machines of restvars, not running
RestIdle ==
  /\ WIdle
  /\ XIdle
  /\ GIdle
  /\ RIdle
  /\ PIdle
  /\ SIdle
  /\ AIdle
  /\ AIdle
  /\ EIdle
  /\ EIdle
  /\ DIdle
  /\ DIdle
  /\ FIdle
  /\ FIdle
  /\ VIdle
  /\ VIdle

(***************************************************************************)
(* Specifications                                                          *)
(***************************************************************************)
\* fit_arima on one series, every outcome of every candidate fit
InitFit == FaInit /\ PsIdle /\ TsIdle /\ MIdle /\ RestIdle
SpecFit == InitFit /\ [][FaNext]_vars

\* prepare_stationary_data on NTickers series, every ADF outcome at every level
InitPrepare == FaIdle /\ PsInit /\ TsIdle /\ MIdle /\ RestIdle
SpecPrepare == InitPrepare /\ [][PsNext]_vars

\* transform_to_original_scale on every small forecast and set of paths
InitRestore ==
  /\ FaIdle /\ PsIdle /\ MIdle /\ RestIdle
  /\ \E n \in 1..MaxSteps, m \in 1..MaxPaths :
       \E f \in Rows(n), P \in [1..m -> Rows(n)], value \in AnchorValues :
         TsCall(f, P, value, FirstAnchorDay)
SpecRestore == InitRestore /\ [][TsNext]_vars

\* transform_to_original_scale: the dates, for short and long horizons
InitDates ==
  /\ FaIdle /\ PsIdle /\ MIdle /\ RestIdle
  /\ \E n \in StepChoices, date \in AnchorDays :
       TsCall(Zeros(n), <<Zeros(n)>>, 1000, date)
SpecDates == InitDates /\ [][TsNext]_vars

\* main: prepare_stationary_data, then the pipeline of every ticker
InitMain == FaIdle /\ PsInit /\ TsIdle /\ MInit /\ RestIdle
SpecMain == InitMain /\ [][MNext]_vars

\* a producer with its paths and scores: the two weighted forecasts
InitWeight ==
  /\ FaIdle /\ PsIdle /\ TsIdle /\ MIdle /\ XIdle /\ GIdle /\ RIdle /\ PIdle /\ SIdle
  /\ AIdle /\ EIdle /\ DIdle /\ FIdle /\ VIdle
  /\ \E n \in 1..NWPaths :
       \E producer \in Producers, paths \in [1..n -> WeightRows],
          weights \in [1..n -> ScoreValues], user \in UserThresholds :
         WInit(producer, paths, weights, user)
SpecWeight == InitWeight /\ [][WNext]_vars

\* process_forecast_file on a forecasts file and the analysis.json beside it
InitFixFile ==
  /\ FaIdle /\ PsIdle /\ TsIdle /\ MIdle /\ WIdle /\ GIdle /\ RIdle /\ PIdle /\ SIdle
  /\ AIdle /\ EIdle /\ DIdle /\ FIdle /\ VIdle
  /\ \E data \in ForecastFiles, analysis \in AnalysisFiles : XInit(data, analysis)
SpecFixFile == InitFixFile /\ [][XNext]_vars

\* generate_forecast_paths(model_fit, steps, n_paths), steps >= 1, n_paths >= 1
InitGenerate ==
  /\ FaIdle /\ PsIdle /\ TsIdle /\ MIdle /\ WIdle /\ XIdle /\ RIdle /\ PIdle /\ SIdle
  /\ AIdle /\ EIdle /\ DIdle /\ FIdle /\ VIdle
  /\ \E steps \in 1..MaxSteps, n_paths \in 1..MaxPaths : GInit(steps, n_paths)
SpecGenerate == InitGenerate /\ [][GNext]_vars

\* fit_arima called twice on a series, for every series of Profiles
InitRerun ==
  /\ FaInit /\ PsIdle /\ TsIdle /\ MIdle /\ WIdle /\ XIdle /\ GIdle /\ PIdle /\ SIdle
  /\ AIdle /\ EIdle /\ DIdle /\ FIdle /\ VIdle
  /\ \E profile \in Profiles : RInit(profile)
SpecRerun == InitRerun /\ [][RNext]_vars

\* the candidate fits of one series run by two workers, every interleaving
InitParallel ==
  /\ FaIdle /\ PsIdle /\ TsIdle /\ MIdle /\ WIdle /\ XIdle /\ GIdle /\ RIdle /\ SIdle
  /\ AIdle /\ EIdle /\ DIdle /\ FIdle /\ VIdle
  /\ \E profile \in Profiles : PInit(profile)
SpecParallel == InitParallel /\ [][PNext]_vars

\* a producer reads the scores of its paths from the analysis and weights
InitScores ==
  /\ FaIdle /\ PsIdle /\ TsIdle /\ MIdle /\ XIdle /\ GIdle /\ RIdle /\ PIdle /\ AIdle
  /\ EIdle /\ DIdle /\ FIdle /\ VIdle
  /\ \E n \in 1..NWPaths :
       \E producer \in Producers, analyses \in AnalysesLists(n),
          user \in UserThresholds :
         /\ s_analyses = analyses
         /\ WInit(producer, DistinctRows(n), Probabilities(analyses), user)
SpecScores == InitScores /\ [][WNext]_vars

\* _process_api on three prompts, every outcome of every API request
InitApi ==
  /\ FaIdle /\ PsIdle /\ TsIdle /\ MIdle /\ WIdle /\ XIdle /\ GIdle /\ RIdle /\ PIdle
  /\ SIdle /\ AInit /\ EIdle /\ DIdle /\ FIdle /\ VIdle
SpecApi == InitApi /\ [][ANext]_vars

\* runs of main on some days, then an evaluation
InitEvaluate ==
  /\ FaIdle /\ PsIdle /\ TsIdle /\ MIdle /\ WIdle /\ XIdle /\ GIdle /\ RIdle /\ PIdle
  /\ SIdle /\ AIdle /\ EInit /\ DIdle /\ FIdle /\ VIdle
SpecEvaluate == InitEvaluate /\ [][ENext]_vars

\* generate_path_description on every small path and pair of dates
InitDescribe ==
  /\ FaIdle /\ PsIdle /\ TsIdle /\ MIdle /\ WIdle /\ XIdle /\ GIdle /\ RIdle /\ PIdle
  /\ SIdle /\ AIdle /\ EIdle /\ FIdle /\ VIdle
  /\ \E n \in 1..MaxSteps :
       \E path \in PricePaths(n), start \in AnchorDays, last \in LastPrices :
         \E end \in EndDates(start) : DInit(path, start, end, last)
SpecDescribe == InitDescribe /\ [][DNext]_vars

\* fix_forecasts.main run MaxRuns times on every small output tree
InitFixMain ==
  /\ FaIdle /\ PsIdle /\ TsIdle /\ MIdle /\ WIdle /\ XIdle /\ GIdle /\ RIdle /\ PIdle
  /\ SIdle /\ AIdle /\ EIdle /\ DIdle /\ VIdle
  /\ \E tree \in OutputTrees, analysis \in [OutputDirs -> AnalysisFiles] :
       FInit(tree, analysis)
SpecFixMain == InitFixMain /\ [][FNext]_vars

\* the dates of transform_to_original_scale and those plot_forecast_comparison
\* recomputes for the same anchor and number of steps
InitPlot ==
  /\ FaIdle /\ PsIdle /\ MIdle /\ WIdle /\ XIdle /\ GIdle /\ RIdle
  /\ PIdle /\ SIdle /\ AIdle /\ EIdle /\ DIdle /\ FIdle
  /\ \E n \in StepChoices, date \in AnchorDays :
       /\ TsCall(Zeros(n), <<Zeros(n)>>, 1000, date)
       /\ VInit(n, date)
SpecPlot == InitPlot /\ [][PlotNext]_vars

(***************************************************************************)
(* fit_arima: properties                                                   *)
(***************************************************************************)
\* the finite AIC values reported so far by fits that did not raise
SeenFinite == {a \in FiniteAICs : firstSeen[a] # 0}
MinSeen == CHOOSE a \in SeenFinite : \A b \in SeenFinite : a <= b
\* the earliest-scanned candidate that reported the minimum finite AIC
FirstOfMin == firstSeen[MinSeen] - 1
AnySuccess == SeenFinite # {} \/ sawNonFinite
AllAttempted == \A i \in 0..(NCandidates - 1) : attempts[i] = 1

\* C1 (as stated): fit_arima returns the order of the successful fit with the
\* globally minimum AIC among all successful fits, the earliest-scanned one on a
\* tie; in particular it returns an order whenever some candidate fitted.
C1_AsStated ==
  fa_pc = "returned" =>
    /\ (AnySuccess => fa_result[2] # None)
    /\ (SeenFinite # {} => fa_result[2] = OrderOf(FirstOfMin))

\* C1 (amended): among the successful fits whose AIC compares below +inf (not
\* +inf, not NaN), fit_arima returns the order (p,0,q) and the fit of the one with
\* the minimum AIC, the earliest-scanned on a tie; the best so far is at every
\* point of the scan the earliest candidate with the minimum AIC seen so far.
C1_MinAicEarliestWins ==
  /\ SeenFinite # {} =>
        /\ best_aic = MinSeen
        /\ best_order = OrderOf(FirstOfMin)
        /\ best_model = <<CandP(FirstOfMin), CandQ(FirstOfMin), MinSeen>>
  /\ SeenFinite = {} => best_order = None /\ best_model = None
  /\ fa_pc = "returned" => fa_result = ReturnValue(best_model, best_order)
  /\ fa_pc = "returned" /\ SeenFinite # {} =>
        /\ fa_result[2] = OrderOf(FirstOfMin)
        /\ fa_result[2][2] = 0
        /\ fa_result[3][3] = MinSeen

\* C1 witness: two finite AIC values were reported, the smaller one first by a
\* later candidate than the larger one, and fit_arima has returned that candidate.
C1_Witness ==
  /\ fa_pc = "returned"
  /\ Cardinality(SeenFinite) >= 2
  /\ \E b \in SeenFinite : b # MinSeen /\ firstSeen[b] < firstSeen[MinSeen]
  /\ fa_result[2] = OrderOf(FirstOfMin)

\* C2: every candidate (p,0,q), p in 0..5, q in 0..5, is attempted before the
\* return and none is attempted twice, whichever candidates fail: the candidates
\* before the scan position have been attempted once, the others not yet, and
\* the 36 scan positions are the 36 distinct pairs (p,q) with d = 0.
C2_EveryCandidateOnce ==
  /\ \A i \in 0..(NCandidates - 1) :
        attempts[i] = (IF i < fa_idx THEN 1 ELSE 0)
  /\ fa_pc = "returned" => AllAttempted /\ fa_idx = NCandidates
  /\ NCandidates = 36
  /\ fa_idx < NCandidates =>
        /\ OrderOf(fa_idx)[1] \in 0..5 /\ OrderOf(fa_idx)[3] \in 0..5
        /\ OrderOf(fa_idx)[2] = 0
        /\ OrderOf(fa_idx)[1] * 6 + OrderOf(fa_idx)[3] = fa_idx

\* C2 witness: the scan is over, the last candidate failed, others fitted, and
\* all 36 have been attempted once.
C2_Witness ==
  fa_pc = "returned" /\ lastFailed /\ SeenFinite # {} /\ AllAttempted

\* C3: a candidate that raises leaves best_aic, best_order and best_model as
\* they were and the scan goes on with the next candidate; fit_arima never
\* raises, and returns a fit whenever some candidate fitted with a finite AIC.
C3_ErrorSkipsCandidate ==
  /\ [][(attempts' # attempts /\ lastFailed') =>
          /\ best_aic' = best_aic
          /\ best_order' = best_order
          /\ best_model' = best_model
          /\ fa_idx' = fa_idx + 1
          /\ fa_pc' = "scan"]_vars
  /\ [](~fa_raised)
  /\ [](fa_pc = "returned" /\ SeenFinite # {} =>
          fa_result[1] # None /\ fa_result[2] # None /\ fa_result[3] # None)

\* C3 witness: in mid-scan a candidate has just raised while an earlier fit is
\* held as the best.
C3_Witness ==
  fa_pc = "scan" /\ lastFailed /\ fa_idx < NCandidates /\ best_order # None

\* C4: when no candidate fits, the caller is told so by the (None, None, None)
\* return (the code's form of NoConvergenceError, tested by main) and gets no
\* order and no model.
C4_NoFitSignalled ==
  fa_pc = "returned" /\ ~AnySuccess =>
    fa_result = <<None, None, None>> /\ ~fa_raised

\* C4 witness: all 36 candidates raised and fit_arima has returned.
C4_Witness ==
  fa_pc = "returned" /\ ~AnySuccess /\ AllAttempted /\ lastFailed

(***************************************************************************)
(* prepare_stationary_data: properties                                     *)
(***************************************************************************)
\* level k is the first whose p-value is below 0.05, adfuller raising at none before
FirstStationaryLevel(k) ==
  /\ k \in Levels
  /\ adf[k] \in PValues /\ adf[k] < Alpha
  /\ \A l \in 0..(k - 1) : adf[l] \in PValues /\ ~(adf[l] < Alpha)

\* C5: the data prepare_stationary_data holds or has stored for a ticker has
\* been differenced at most 3 times, at every point and on every path.
C5_AtMostThreeDifferences ==
  /\ current_data.diffs \in 0..3
  /\ diff_order \in 0..3
  /\ \A t \in Tickers : stationary_data[t].diffs \in 0..3
  /\ ps_pc = "returned" => \A t \in Tickers : stationary_data[t] # NoData

\* C5 witness: prepare_stationary_data has returned, one ticker's series
\* differenced twice, another's not at all.
C5_Witness ==
  /\ ps_pc = "returned"
  /\ \E t, u \in Tickers : stationary_data[t].diffs = 2 /\ stationary_data[u].diffs = 0

\* C6 (as stated): when 3 differences were applied and no p-value was below 0.05,
\* prepare_stationary_data does not raise; after the warning it stores for the
\* ticker the series differenced 3 times.
C6_CapReachedReturnsData ==
  /\ ps_error # "AttributeError"
  /\ \A t \in ps_warned :
       t < ps_ticker /\ stationary_data[t] # NoData /\ stationary_data[t].diffs = 3

\* C7 (as stated): adfuller is run on every level the loop reaches, the third
\* difference included; when level k in 0..3 is the first with p < 0.05 the loop
\* ends with k differences and is_stationary; is_stationary is set only at a
\* level with p < 0.05.
C7_FirstStationaryLevelStops ==
  /\ ps_pc = "after_loop" =>
       /\ \A l \in 0..current_data.diffs : l \in tested
       /\ \A k \in Levels : FirstStationaryLevel(k) =>
            is_stationary /\ current_data.diffs = k /\ diff_order = k
  /\ is_stationary =>
       adf[current_data.diffs] \in PValues /\ adf[current_data.diffs] < Alpha

(***************************************************************************)
(* transform_to_original_scale: properties                                 *)
(***************************************************************************)
\* s[1] + ... + s[k], added one step at a time
RECURSIVE SumFirst(_, _)
SumFirst(s, k) == IF k = 0 THEN 0 ELSE SumFirst(s, k - 1) + s[k]

\* C8: at every step k the restored point forecast, and each restored path row,
\* is the anchor plus the sum of the row's differenced values at the steps up to
\* and including k; the outputs have the shapes of the inputs, row i of the
\* output is a function of row i of the input and the anchor alone; anchor 100.0
\* with [1.0, -0.5, 2.0] gives [101.0, 100.5, 102.5] (in tenths).
C8_RestoredIsAnchorPlusRunningSum ==
  /\ ts_pc = "returned" =>
       /\ Len(ts_result.forecast_original) = Len(forecast)
       /\ \A k \in 1..Len(forecast) :
            ts_result.forecast_original[k] = last_original_value + SumFirst(forecast, k)
       /\ Len(ts_result.simulated_paths_original) = Len(simulated_paths)
       /\ \A i \in 1..Len(simulated_paths) :
            /\ Len(ts_result.simulated_paths_original[i]) = Len(simulated_paths[i])
            /\ \A k \in 1..Len(simulated_paths[i]) :
                 ts_result.simulated_paths_original[i][k] =
                   last_original_value + SumFirst(simulated_paths[i], k)
  /\ TransformForecast(<<10, -5, 20>>, 1000) = <<1010, 1005, 1025>>
  /\ TransformPaths(<<<<10, -5, 20>>, <<-5, -5, 0>>>>, 1000) =
       <<<<1010, 1005, 1025>>, <<995, 990, 990>>>>

\* C8 witness: a three-step forecast and two different paths, one falling and
\* one rising, have been restored.
C8_Witness ==
  /\ ts_pc = "returned"
  /\ forecast = <<10, -5, 10>>
  /\ Len(simulated_paths) = 2
  /\ simulated_paths[1] = <<-5, -5, 10>>
  /\ simulated_paths[2] = <<10, 10, -5>>
  /\ ts_result.simulated_paths_original[2] # ts_result.simulated_paths_original[1]

\* a weekday that is no US federal holiday
IsBusinessDay(d) == Weekday(d) < 5 /\ d \notin USFederalHolidays

\* C10 (as stated): the returned forecast_dates are exactly the next `steps`
\* business days after the anchor: `steps` of them, strictly increasing, all after
\* the anchor, none a Saturday, Sunday or US federal holiday, and no business
\* day up to the last returned date left out.
C10_DatesAreNextBusinessDays ==
  ts_pc = "returned" =>
    LET ds == ts_result.forecast_dates
        n  == Len(forecast)
    IN  /\ Len(ds) = n
        /\ \A k \in 1..(n - 1) : ds[k] < ds[k + 1]
        /\ \A k \in 1..n : ds[k] > last_date /\ IsBusinessDay(ds[k])
        /\ \A d \in (last_date + 1)..ds[n] :
             IsBusinessDay(d) => \E k \in 1..n : ds[k] = d

\* the last day of the buffer window, the interval the holidays were loaded for
WindowEnd == AddBDays(last_date, Len(forecast) + BufferDays)

\* C11 (as stated): when the buffer window holds fewer than `steps` valid
\* business days, transform_to_original_scale fails (DateGenerationError) and
\* does not search past the window: it is never in its loop, dates still
\* lacking, at a date after the window's end, and it never returns a date from
\* after the window's end.
C11_FailsWhenWindowExhausted ==
  /\ ts_pc = "dates" /\ Len(forecast_dates) < Len(forecast) =>
        current_date <= WindowEnd
  /\ ts_pc = "returned" =>
        \A k \in 1..Len(ts_result.forecast_dates) :
           ts_result.forecast_dates[k] <= WindowEnd

\* C22: every date the loop tests for membership in the holiday set lies in the
\* interval the set was loaded for, from the anchor to the anchor plus
\* steps + 10 business days: the buffer is enough for every anchor and horizon.
C22_TestedDatesInsideWindow ==
  (/\ ts_pc = "dates"
   /\ Len(forecast_dates) < Len(forecast)
   /\ Weekday(current_date) < 5)
    => (last_date <= current_date /\ current_date <= WindowEnd)

(***************************************************************************)
(* calculate_threshold_weighted_forecast: properties                       *)
(***************************************************************************)
\* the paths whose score is at least t
AtLeast(t) == {i \in 1..Len(w_weights) : w_weights[i] >= t}
AllPaths == 1..Len(w_paths)

\* the sum of step k over the paths of the set S
RECURSIVE SumOver(_, _)
SumOver(S, k) ==
  IF S = {} THEN 0
  ELSE LET i == CHOOSE j \in S : TRUE
       IN  w_paths[i][k] + SumOver(S \ {i}, k)

\* f is, step by step, the arithmetic mean of the paths of S
IsMeanOf(f, S) ==
  /\ Len(f) = Len(w_paths[1])
  /\ \A k \in 1..Len(f) : SameMean(f[k], Mean(SumOver(S, k), Cardinality(S)))

\* the forecasts computed so far, each with the threshold it was computed with
FirstDone == w_pc # "idle" /\ (w_call = 2 \/ w_pc = "done")
SecondDone == w_pc = "done"

C13_FallbackToAllPathsWithWarning ==
  /\ FirstDone =>
        /\ w_out.threshold_warned = (AtLeast(w_out.threshold_used) = {})
        /\ w_out.threshold_warned =>
              IsMeanOf(w_out.threshold_weighted_forecast, AllPaths)
  /\ SecondDone =>
        /\ w_out.chatgpt_warned = (AtLeast(w_out.chatgpt_used) = {})
        /\ w_out.chatgpt_warned =>
              IsMeanOf(w_out.chatgpt_weighted_forecast, AllPaths)

\* C13 witness: three paths with scores [1,1,1] and threshold 4: the mean of all
\* three, with the warning.
C13_Witness ==
  /\ FirstDone
  /\ w_weights = <<1, 1, 1>>
  /\ w_paths = <<<<10, 10>>, <<20, 20>>, <<10, 30>>>>
  /\ w_out.threshold_used = 4
  /\ w_out.threshold_warned
  /\ w_out.threshold_weighted_forecast = <<Mean(40, 3), Mean(60, 3)>>

\* what the weighting rule gives for threshold t: the mean of the paths with
\* score >= t, of all paths when there is none
ByThreshold(f, t) ==
  IsMeanOf(f, IF AtLeast(t) # {} THEN AtLeast(t) ELSE AllPaths)

\* C15 (as stated): every producer computes threshold_weighted_forecast with the
\* fixed threshold 4, whatever threshold the caller supplies.
C15_ThresholdWeightedUsesFour ==
  FirstDone =>
    /\ w_out.threshold_used = 4
    /\ ByThreshold(w_out.threshold_weighted_forecast, 4)

(***************************************************************************)
(* fix_forecasts.process_forecast_file: properties                         *)
(***************************************************************************)
\* the record has both chatgpt_weighted_forecast and chatgpt_threshold, and the
\* stored threshold is the one the stored forecast was computed with
ThresholdIsTheOneUsed(record) ==
  record.chatgpt_threshold # Absent /\ record.chatgpt_weighted_by # Absent =>
    record.chatgpt_threshold = record.chatgpt_weighted_by

\* C16 (as stated): in every forecasts record written by main or by
\* process_forecast_file that has both chatgpt_weighted_forecast and
\* chatgpt_threshold, the stored threshold is the one the stored forecast was
\* computed with, also when the recalculation is skipped.
C16_StoredThresholdIsTheOneUsed ==
  /\ \A t \in StoredThresholds : ThresholdIsTheOneUsed(WrittenByMain(t))
  /\ x_pc = "done" => ThresholdIsTheOneUsed(x_written)

FiniteFits(profile) ==
  {i \in 0..(NCandidates - 1) : OutcomeOf(profile, i) \in FiniteAICs}
MinFinite(profile) ==
  CHOOSE a \in FiniteAICs :
    /\ \E i \in FiniteFits(profile) : OutcomeOf(profile, i) = a
    /\ \A i \in FiniteFits(profile) : a <= OutcomeOf(profile, i)
AttainMin(profile) ==
  {i \in FiniteFits(profile) : OutcomeOf(profile, i) = MinFinite(profile)}
ResultFor(i, aic) == <<<<CandP(i), CandQ(i), aic>>, OrderOf(i), <<CandP(i), CandQ(i), aic>>>>

C17_OneForecastAndNPaths ==
  g_pc = "returned" =>
    /\ Len(g_result.forecast) = g_steps
    /\ Len(g_result.simulated_paths) = g_n_paths
    /\ \A i \in 1..Len(g_result.simulated_paths) :
         Len(g_result.simulated_paths[i]) = g_steps
    /\ g_calls = [forecast |-> 1, simulate |-> g_n_paths]

\* C17 witness: two steps and two paths that differ from each other and from
\* the point forecast.
C17_Witness ==
  /\ g_pc = "returned"
  /\ g_steps = 2
  /\ g_n_paths = 2
  /\ g_result.forecast = <<10, 10>>
  /\ g_result.simulated_paths = <<<<10, -5>>, <<-5, -5>>>>

\* C21: a non-finite value in the point forecast or in a simulated path is
\* fatal (SimulationDivergedError): generate_forecast_paths never returns, and
\* main never passes on, a bundle that holds a non-finite value.
C21_NonFiniteIsFatal ==
  g_pc = "returned" =>
    /\ \A k \in 1..Len(g_result.forecast) : IsFinite(g_result.forecast[k])
    /\ \A i \in 1..Len(g_result.simulated_paths) :
         \A k \in 1..Len(g_result.simulated_paths[i]) :
           IsFinite(g_result.simulated_paths[i][k])

(***************************************************************************)
(* the scores of the paths: properties                                     *)
(***************************************************************************)
\* the rows whose entry of the same position has probability >= t
PositionsAtLeast(t) ==
  {i \in 1..Len(s_analyses) : s_analyses[i].probability >= t}
SelectedByPosition(t) ==
  IF PositionsAtLeast(t) # {} THEN PositionsAtLeast(t) ELSE 1..Len(s_analyses)

\* C23: the score applied to row i of simulated_paths is the probability of
\* the i-th entry of the analyses list, for every i; which rows are selected
\* depends on the probabilities and their positions only, not on path_id.
C23_ScoreOfRowIsEntryOfSamePosition ==
  /\ w_pc # "idle" =>
        /\ Len(w_weights) = Len(s_analyses)
        /\ \A i \in 1..Len(s_analyses) : w_weights[i] = s_analyses[i].probability
  /\ w_pc = "average" =>
        \A i \in 1..Len(s_analyses) :
          w_mask[i] = (i \in SelectedByPosition(w_threshold))
  /\ FirstDone =>
        IsMeanOf(w_out.threshold_weighted_forecast,
                 SelectedByPosition(w_out.threshold_used))
  /\ SecondDone =>
        IsMeanOf(w_out.chatgpt_weighted_forecast,
                 SelectedByPosition(w_out.chatgpt_used))

\* C23 witness: the first entry names path 2 and has probability 9, the second
\* names path 1 and has probability 1; with threshold 5 the first row alone is
\* selected.
C23_Witness ==
  /\ w_pc = "done"
  /\ s_analyses = <<[path_id |-> 2, probability |-> 9],
                    [path_id |-> 1, probability |-> 1]>>
  /\ w_out.chatgpt_used = 5
  /\ w_out.chatgpt_weighted_forecast = <<Mean(10, 1), Mean(10, 1)>>

(***************************************************************************)
(* ChatGPTHandler._process_api: properties                                 *)
(***************************************************************************)
\* C24: the prompts are processed in order; each prompt's request is attempted
\* at most MAX_RETRIES (3) times, again only after a failure; the first success
\* stores response_i and ends the attempts for that prompt; when all 3 attempts
\* of a prompt fail an exception is raised, no later prompt is sent and no
\* dictionary is returned; a returned dictionary has a response for every prompt.
C24_RetryThenRaise ==
  /\ [](\A i \in PromptIndexes :
          /\ a_sent[i] <= MAX_RETRIES
          /\ a_sent[i] <= 3
          /\ a_sent[i] > 0 => \A k \in 0..(i - 1) : (k + 1) \in a_responses
          /\ (i + 1) \in a_responses => a_sent[i] >= 1)
  /\ [](a_pc = "returned" =>
          /\ a_returned.returned
          /\ a_returned.keys = {i + 1 : i \in PromptIndexes}
          /\ a_responses = a_returned.keys)
  /\ [](a_pc = "raised" => a_returned = NoDictionary)
  /\ [](a_pc = "raised" /\ a_sent[0] > 0 =>
          /\ a_sent[a_i] = MAX_RETRIES
          /\ (a_i + 1) \notin a_responses
          /\ \A k \in PromptIndexes : k > a_i => a_sent[k] = 0)
  /\ [][\A i \in PromptIndexes :
          /\ (i + 1) \in a_responses => a_sent'[i] = a_sent[i]
          /\ a_sent'[i] > a_sent[i] /\ a_sent[i] > 0 =>
               (i + 1) \notin a_responses /\ a_i = i /\ a_attempt = a_sent[i]
          /\ a_sent'[i] \in {a_sent[i], a_sent[i] + 1}]_vars

\* C24 witness: the first prompt succeeded at once, the second at its third
\* attempt, the third failed three times: the exception was raised.
C24_Witness ==
  /\ a_pc = "raised"
  /\ a_sent = [i \in PromptIndexes |-> IF i = 0 THEN 1 ELSE 3]
  /\ a_responses = {1, 2}
  /\ a_returned = NoDictionary

(***************************************************************************)
(* the output directories: properties                                      *)
(***************************************************************************)
\* C25: load_forecast_data looks up the directory name that
\* _create_timestamped_dir produced for a run of the same ticker made the day
\* before, and so finds that run's forecasts file: no FileNotFoundError.
C25_FindsYesterdaysDirectory ==
  (e_load.result # "none" /\ <<e_load.ticker, e_load.day - 1>> \in e_runs)
    => (/\ e_load.result = "loaded"
        /\ ExpectedDirName(e_load.ticker, e_load.day)
              = CreatedDirName(e_load.ticker, e_load.day - 1))

(***************************************************************************)
(* fix_forecasts: the thresholds after the fix                             *)
(***************************************************************************)
\* C26: fix_forecasts raises the threshold of both weighted forecasts by
\* exactly 1: the stored chatgpt_threshold becomes the original plus 1, and in
\* the fixed file of a record written by main threshold_weighted_forecast is
\* computed with main's fixed threshold plus 1 and chatgpt_weighted_forecast
\* with the original chatgpt_threshold plus 1 (the threshold now stored).
C26_BothThresholdsPlusOne ==
  /\ [][x_pc = "adjust" /\ x_data.chatgpt_threshold # Absent =>
          x_data'.chatgpt_threshold = x_data.chatgpt_threshold + 1]_vars
  /\ [](x_pc = "done" /\ x_written.chatgpt_threshold # Absent =>
          /\ x_written.threshold_weighted_by = FixedThreshold("main") + 1
          /\ x_written.chatgpt_weighted_by = x_written.chatgpt_threshold)

(***************************************************************************)
(* generate_path_description: properties                                   *)
(***************************************************************************)
\* the movements told by the sentences, in order
RECURSIVE MovesOf(_)
MovesOf(sentences) ==
  IF sentences = << >> THEN << >>
  ELSE Head(sentences).moves \o MovesOf(Tail(sentences))

\* the sentences that tell the movement leading to step k
Telling(k) ==
  {j \in 1..Len(d_description) :
     \E m \in 1..Len(d_description[j].moves) : d_description[j].moves[m].to = k}

\* C27: for a path of n >= 2 steps with n matching business days the
\* description tells the movement of every step exactly once, step 0 from the
\* last historical value and step k from step k-1, in a sentence that names
\* the business day of the step the movement leads to.
C27_EveryStepToldOnce ==
  (d_pc = "done" /\ Len(d_path) >= 2 /\ Len(d_business_days) = Len(d_path)) =>
    \A k \in 0..(Len(d_path) - 1) :
      /\ Cardinality({j \in 1..Len(MovesOf(d_description)) :
                        MovesOf(d_description)[j].to = k}) = 1
      /\ \A j \in 1..Len(MovesOf(d_description)) :
           MovesOf(d_description)[j].to = k =>
             MovesOf(d_description)[j].from = k - 1
      /\ \A j \in Telling(k) : d_description[j].date = d_business_days[k + 1]

\* C28: generate_path_description terminates whenever the range holds a
\* business day: every pass through the while loop of line 30 adds a date to
\* business_days, also when the day after the last one is a Saturday, a Sunday
\* or a holiday.
C28_ExtensionMakesProgress ==
  [][(d_iters' > d_iters /\ d_business_days # << >>) =>
       Len(d_business_days') > Len(d_business_days)]_vars

(***************************************************************************)
(* fix_forecasts.main: properties                                          *)
(***************************************************************************)
\* the fixed file next to a forecasts file
NextTo(path) == [path EXCEPT !.name = FixedForecastsName]

\* C29: main never changes or removes a *_forecasts.json file and never takes
\* a *_fixed.json file as input; every run processes the same files and writes
\* the same contents as the runs before it, and the chatgpt_threshold of a
\* fixed file is that of the forecasts file plus 1 after any number of runs.
C29_RunsLeaveInputsAndRepeat ==
  /\ \A p \in Paths : GlobMatches(p.name) => f_tree[p] = f_initial[p]
  /\ \A p \in f_inputs : ~IsFixedName(p.name)
  /\ \A i \in 1..Len(f_log) : f_log[i] = f_log[1]
  /\ \A i \in 1..Len(f_log) : \A p \in f_log[i].inputs :
       (f_initial[p].state = "file" /\ f_initial[p].data.chatgpt_threshold # Absent) =>
         /\ f_tree[NextTo(p)].state = "file"
         /\ f_tree[NextTo(p)].data.chatgpt_threshold =
              f_initial[p].data.chatgpt_threshold + 1

\* the last run has returned after fixing a file that stores a threshold, in a
\* tree where a fixed file was there before the first run
C29_Witness ==
  /\ f_pc = "returned"
  /\ Len(f_log) = MaxRuns
  /\ f_successful > 0
  /\ \E p \in f_inputs :
       /\ f_initial[p].state = "file"
       /\ f_initial[p].data.chatgpt_threshold # Absent
       /\ f_initial[NextTo(p)].state = "file"

(***************************************************************************)
(* plot_forecast_comparison: properties                                    *)
(***************************************************************************)
\* C30: for every anchor and number of steps the dates plot_forecast_comparison
\* recomputes are the forecast_dates transform_to_original_scale returned, and
\* the arima_forecast dates, forecast_start_date and forecast_end_date that
\* export_forecast_paths writes are those dates.
C30_ExportedDatesAreTransformDates ==
  v_pc = "exported" =>
    LET ds == ts_result.forecast_dates
    IN  /\ v_forecast_dates = ds
        /\ v_export.arima_forecast = [k \in 1..Len(ds) |-> Strftime(ds[k])]
        /\ v_export.forecast_start_date = <<Strftime(ds[1])>>
        /\ v_export.forecast_end_date = <<Strftime(ds[Len(ds)])>>

(***************************************************************************)
(* main: properties                                                       *)
(***************************************************************************)
\* the anchors of k restorations, most recently applied difference first, each
\* at the last value of the level it restores to: levels k-1, ..., 0
ExpectedAnchors(k) == [i \in 1..k |-> k - i]

\* C9 (as stated): for a ticker whose series prepare_stationary_data differenced
\* k times, what main hands to the weighting and the export was restored by
\* exactly k cumulative-sum restorations, re-anchored level by level, and is in
\* original price units (no difference left, none undone too often).
C9_OneRestorationPerDifference ==
  \A t \in Tickers :
    handed[t].state = "handed" =>
      /\ Len(handed[t].anchors) = stationary_data[t].diffs
      /\ handed[t].anchors = ExpectedAnchors(stationary_data[t].diffs)
      /\ handed[t].units = 0

\* C14 (as stated): whenever main calls calculate_threshold_weighted_forecast
\* the scores taken from the analysis are as many as the simulated paths, and
\* each weighted forecast it gets has length `steps`, like the point forecast
\* and forecast_dates.
C14_OneScorePerPath ==
  /\ m_pc = "weight" => m_shape.scores = m_shape.paths
  /\ m_pc = "export" =>
        /\ m_shape.scores = m_shape.paths
        /\ m_shape.threshold_weighted = DEFAULT_FORECAST_STEPS
        /\ m_shape.chatgpt_weighted = DEFAULT_FORECAST_STEPS
        /\ m_shape.forecast = DEFAULT_FORECAST_STEPS
        /\ m_shape.dates = DEFAULT_FORECAST_STEPS

\* C20: when fit_arima returns no fit for a ticker, main enters none of the
\* stages (simulation, rescaling, prompts, weighting, export) for it and goes on
\* with the next ticker: the run does not end there, and it only ends normally
\* with every ticker either skipped or processed.
C20_NoFitSkipsTickerOnly ==
  /\ [][(m_ticker \in Tickers /\ handed[m_ticker].state = "pending"
           /\ handed'[m_ticker].state = "skipped") =>
          /\ m_ticker' = m_ticker + 1
          /\ m_pc' = "fit"
          /\ m_stages' = m_stages]_vars
  /\ [](\A t \in Tickers : handed[t].state = "skipped" => m_stages[t] = {})
  /\ [](m_pc = "done" => \A t \in Tickers : handed[t].state # "pending")

\* C20 witness: the first ticker got no fit and was skipped, the second went
\* through every stage.
C20_Witness ==
  /\ handed[1].state = "skipped"
  /\ m_stages[1] = {}
  /\ handed[2].state = "handed"
  /\ m_stages[2] = Stages
  /\ m_pc = "done"

====
